---------------------------- MODULE Spec2Model ----------------------------
(***************************************************************************)
(* Neural Dive: the game state machine of src/neural_dive/game.py.         *)
(*                                                                         *)
(* The state is the fields of class Game; there is one action per public   *)
(* method (move_player, interact, use_stairs, answer_question,             *)
(* exit_conversation, update_npc_wandering), each translated with every    *)
(* helper it calls, and one for the main loop closing a terminal.          *)
(* Strings shown to the player are modelled by a message kind; the value   *)
(* a command returns is kept in ret.                                       *)
(***************************************************************************)
EXTENDS Integers, Sequences, FiniteSets, TLC

NONE == "None"

Max(a, b) == IF a >= b THEN a ELSE b
Min(a, b) == IF a <= b THEN a ELSE b
Abs(a) == IF a < 0 THEN 0 - a ELSE a

(***************************************************************************)
(* config.py                                                               *)
(***************************************************************************)
DEFAULT_MAP_WIDTH == 50
DEFAULT_MAP_HEIGHT == 25
MAX_FLOORS == 3
STARTING_COHERENCE == 80
MAX_COHERENCE == 100
CORRECT_ANSWER_COHERENCE_GAIN == 8
WRONG_ANSWER_COHERENCE_PENALTY == 30
ENEMY_WRONG_ANSWER_PENALTY == 45
HELPER_COHERENCE_RESTORE == 15
QUEST_COMPLETION_COHERENCE_BONUS == 50
PLAYER_START_X == 5
PLAYER_START_Y == 5
STAIRS_DOWN_DEFAULT_X == 45
STAIRS_DOWN_DEFAULT_Y == 20
NPC_MIN_DISTANCE_FROM_PLAYER == 5
NPC_PLACEMENT_ATTEMPTS == 100
TERMINAL_PLACEMENT_ATTEMPTS == 50
TERMINAL_X_OFFSET == 3
TERMINAL_Y_OFFSET == 3
TERMINAL_X_BONUS == 5
TERMINAL_Y_BONUS == 5
STAIRS_UP_DEFAULT_X == 10
STAIRS_UP_DEFAULT_Y == 5
NPC_WANDER_ENABLED == TRUE
NPC_IDLE_TICKS_MIN == 5
NPC_IDLE_TICKS_MAX == 10
NPC_WANDER_TICKS_MIN == 3
NPC_WANDER_TICKS_MAX == 7

NPC_MOVEMENT_SPEEDS(npc_type) ==
    CASE npc_type = "specialist" -> 5
      [] npc_type = "helper" -> 3
      [] npc_type = "enemy" -> 3
      [] npc_type = "quest" -> 999
      [] OTHER -> 2

FLOOR_REQUIRED_NPCS(floor) ==
    CASE floor = 1 -> {"ALGO_SPIRIT", "HEAP_MASTER", "PATTERN_ARCHITECT"}
      [] floor = 2 -> {"WEB_ARCHITECT", "CRYPTO_GUARDIAN", "SYSTEM_CORE", "SCALE_MASTER"}
      [] OTHER -> {}

QUEST_TARGET_NPCS == {"ALGO_SPIRIT", "NET_DAEMON", "COMPILER_SAGE", "DB_GUARDIAN"}

(***************************************************************************)
(* map_generation.py.  A grid is read cell by cell: create_map gives the   *)
(* tile that the built grid holds at (x, y).  The grid depends on the      *)
(* size and the floor only, not on the seed of the game.                   *)
(***************************************************************************)
_draw_floor_1_walls(width, height, x, y) ==
    \/ y = 10 /\ x \in 20..34 /\ x < width
    \/ x = 15 /\ y \in 5..14 /\ y < height
    \/ height > 18 /\ width > 30 /\ <<x, y>> \in {<<30, 18>>, <<31, 18>>, <<30, 17>>}
    \/ y = 15 /\ x \in 40..45 /\ x < width

_draw_floor_2_walls(width, height, x, y) ==
    \/ x = 25 /\ y \in 8..17 /\ y < height
    \/ x = 35 /\ y \in 5..11 /\ y < height
    \/ y = 15 /\ x \in 15..24 /\ x < width
    \/ y = 20 /\ x \in 30..39 /\ x < width
    \/ y = 8 /\ x \in 10..14 /\ x < width
    \/ x = 10 /\ y \in 8..11 /\ y < height

_draw_floor_3_walls(width, height, x, y) ==
    \/ y = 12 /\ x \in 15..39 /\ x < width
    \/ y = 8 /\ x \in 25..34 /\ x < width
    \/ x = 35 /\ y \in 5..11 /\ y < height
    \/ x = 20 /\ y \in 15..21 /\ y < height
    \/ x = 10 /\ y \in 8..14 /\ y < height
    \/ y = 18 /\ x \in 8..17 /\ x < width
    \/ y \in {10, 17} /\ x \in 42..46 /\ x < width

_draw_floor_walls(width, height, floor, x, y) ==
    CASE floor = 1 -> _draw_floor_1_walls(width, height, x, y)
      [] floor = 2 -> _draw_floor_2_walls(width, height, x, y)
      [] floor = 3 -> _draw_floor_3_walls(width, height, x, y)
      [] OTHER -> FALSE

create_map(width, height, floor, x, y) ==
    IF \/ y = 0 \/ y = height - 1 \/ x = 0 \/ x = width - 1
       \/ _draw_floor_walls(width, height, floor, x, y)
    THEN "#"
    ELSE "."


(***************************************************************************)
(* enums.py                                                                *)
(***************************************************************************)
NPCType == {"specialist", "helper", "enemy", "quest"}

(***************************************************************************)
(* models.py: Answer, Question (its list of answers), Conversation.        *)
(***************************************************************************)
Answer(correct, reward_knowledge) ==
    [correct |-> correct, reward_knowledge |-> reward_knowledge,
     enemy_penalty |-> ENEMY_WRONG_ANSWER_PENALTY]

Conversation(npc_name, questions, npc_type) ==
    [npc_name |-> npc_name, questions |-> questions, npc_type |-> npc_type,
     current_question_idx |-> 0, completed |-> FALSE]

(***************************************************************************)
(* Content tables (data_loader.load_all_game_data): the question bank, the *)
(* NPC definitions in definition order, and the keys of the terminal       *)
(* texts.  Every question holds one wrong and one correct answer.          *)
(***************************************************************************)
Q_big_o == <<Answer(FALSE, NONE), Answer(TRUE, "binary_search")>>
Q_hash_table == <<Answer(TRUE, "hashing"), Answer(FALSE, NONE)>>
Q_heap_operations == <<Answer(FALSE, NONE), Answer(TRUE, "binary_search")>>
Q_plain == <<Answer(TRUE, NONE), Answer(FALSE, NONE)>>
\* the wrong answer of this question carries its own enemy penalty
Q_p_vs_np == <<[Answer(FALSE, NONE) EXCEPT !.enemy_penalty = 60],
               Answer(TRUE, "complexity_theory")>>

NpcInfo(name, floor, npc_type, questions) ==
    [name |-> name, floor |-> floor, npc_type |-> npc_type, conversation |-> questions]

\* layer 1 with its three required NPCs, layer 2 with a helper and the quest giver
ContentA ==
    << NpcInfo("ALGO_SPIRIT", 1, "specialist", <<Q_big_o, Q_hash_table>>),
       NpcInfo("HEAP_MASTER", 1, "specialist", <<Q_heap_operations>>),
       NpcInfo("PATTERN_ARCHITECT", 1, "enemy", <<Q_p_vs_np>>),
       NpcInfo("MEMORY_HEALER", 2, "helper", <<>>),
       NpcInfo("ORACLE", 2, "quest", <<>>) >>

\* the quest giver and the four quest targets on layer 1
ContentQ ==
    << NpcInfo("ORACLE", 1, "quest", <<>>),
       NpcInfo("ALGO_SPIRIT", 1, "specialist", <<Q_big_o>>),
       NpcInfo("NET_DAEMON", 1, "specialist", <<Q_plain>>),
       NpcInfo("COMPILER_SAGE", 1, "specialist", <<Q_plain>>),
       NpcInfo("DB_GUARDIAN", 1, "specialist", <<Q_plain>>) >>

\* all three layers: the required NPCs of layer 1 have no questions, those of
\* layer 2 are helpers, and a boss waits on the last layer
ContentD ==
    << NpcInfo("ALGO_SPIRIT", 1, "specialist", <<>>),
       NpcInfo("HEAP_MASTER", 1, "specialist", <<>>),
       NpcInfo("PATTERN_ARCHITECT", 1, "specialist", <<>>),
       NpcInfo("WEB_ARCHITECT", 2, "helper", <<>>),
       NpcInfo("CRYPTO_GUARDIAN", 2, "helper", <<>>),
       NpcInfo("SYSTEM_CORE", 2, "helper", <<>>),
       NpcInfo("SCALE_MASTER", 2, "helper", <<>>),
       NpcInfo("VIRUS_HUNTER", 3, "enemy", <<Q_p_vs_np>>) >>

\* a single enemy on layer 1
ContentW ==
    << NpcInfo("VIRUS_HUNTER", 1, "enemy", <<Q_p_vs_np>>) >>

\* an enemy and a specialist on layer 1
ContentV ==
    << NpcInfo("VIRUS_HUNTER", 1, "enemy", <<Q_p_vs_np>>),
       NpcInfo("ALGO_SPIRIT", 1, "specialist", <<Q_big_o>>) >>

\* the three required NPCs of layer 1, without questions, and an enemy on
\* the same layer
ContentS ==
    << NpcInfo("ALGO_SPIRIT", 1, "specialist", <<>>),
       NpcInfo("HEAP_MASTER", 1, "specialist", <<>>),
       NpcInfo("PATTERN_ARCHITECT", 1, "specialist", <<>>),
       NpcInfo("VIRUS_HUNTER", 1, "enemy", <<Q_p_vs_np>>) >>

terminal_data == {"big_o_hint", "lore_layer1", "data_structures", "tcp_hint",
                  "devops_guide", "lore_layer2", "concurrency_hint", "database_basics"}

(***************************************************************************)
(* conversation.create_randomized_conversation: a copy of the template     *)
(* whose questions and answers are reordered by the random generator; the  *)
(* generator's outcome is the input shuffle.                               *)
(***************************************************************************)
Reverse(s) == [i \in 1..Len(s) |-> s[Len(s) + 1 - i]]

Shuffles == {"keep", "reverse"}

Reorder(s, shuffle) == IF shuffle = "keep" THEN s ELSE Reverse(s)

create_randomized_conversation(info, shuffle) ==
    Conversation(info.name,
                 Reorder([i \in 1..Len(info.conversation) |->
                              Reorder(info.conversation[i], shuffle)], shuffle),
                 info.npc_type)


(***************************************************************************)
(* The fields of Game.  map_width, map_height and max_floors are the       *)
(* constructor's defaults; placement is the fixed one (random_npcs=False). *)
(* game_map holds the floor number its grid was built for: the grid is     *)
(* create_map(map_width, map_height, game_map).                            *)
(***************************************************************************)
map_width == DEFAULT_MAP_WIDTH
map_height == DEFAULT_MAP_HEIGHT
max_floors == MAX_FLOORS
max_coherence == MAX_COHERENCE

VARIABLES
    npc_data,              \* NPC definitions, in definition order
    old_npc_positions,     \* NPC name -> <<x, y>>, the cell it last moved from
    gates,                 \* gate-bearing variant: sequence of
                           \* [x, y, required_knowledge, unlocked]
    random_npcs,           \* the placement mode
    opened,                \* environment: the gates seen unlocked so far, each as
                           \* <<floor, required_knowledge>>
    current_floor,
    game_map,
    player,                \* [x, y]
    old_player_pos,        \* <<x, y>> or NONE
    npcs,                  \* current floor: sequence of [name, x, y, npc_type]
    stairs,                \* current floor: sequence of [x, y, direction]
    terminals,             \* current floor: sequence of [title, x, y]
    all_npcs,              \* names of the NPCs generated so far
    active_conversation,   \* the NPC name of the active conversation, or NONE
    active_terminal,       \* the title of the terminal being read, or NONE
    npc_conversations,     \* NPC name -> Conversation
    coherence,
    knowledge_modules,
    questions_answered,
    questions_correct,
    questions_wrong,
    npcs_completed,
    game_won,
    npc_opinions,          \* NPC name -> opinion, defined once the NPC was answered
    quest_active,
    quest_completed_npcs,
    message,               \* the kind of the text in Game.message
    ret,                   \* what the last method call returned (its success flag)
    ret_info,              \* the kind of the text process_command returned last
    line,                  \* environment: the line test mode read last
    build,                 \* a call of create_map in progress: its arguments, its grid, its position
    games,                 \* two seeded games of one process and the generator they share
    placing,               \* a random placement of the NPCs of a floor in progress
    trip,                  \* environment: the layout each floor was first generated with, and the
                           \* state a descent left behind while no other step followed it
    frames                 \* environment: wander ticks the frame loop still issues

floorVars == <<current_floor, game_map, npcs, stairs, terminals, all_npcs>>
playerVars == <<player, old_player_pos>>
convVars == <<npc_conversations, active_conversation>>
statVars == <<coherence, knowledge_modules, npc_opinions>>
scoreVars == <<questions_answered, questions_correct, questions_wrong,
               npcs_completed, game_won>>
questVars == <<quest_active, quest_completed_npcs>>

restVars == <<npc_data, old_npc_positions, gates, random_npcs, opened>>

gameVars == <<frames, ret_info, line, placing, trip, restVars, floorVars, playerVars, convVars,
              active_terminal, statVars, scoreVars, questVars, message, ret>>

vars == <<build, games, gameVars>>

\* no call of create_map is being followed
NoBuild == [phase |-> "none"]

\* no random placement is being followed
NoPlacing == [phase |-> "none"]

\* where the entities of a floor stand
LayoutOf(n, t, s) ==
    [npcs |-> [i \in 1..Len(n) |-> <<n[i].name, n[i].x, n[i].y>>],
     terminals |-> [i \in 1..Len(t) |-> <<t[i].title, t[i].x, t[i].y>>],
     stairs |-> [i \in 1..Len(s) |-> <<s[i].direction, s[i].x, s[i].y>>]]

\* the state of a game that outlives a floor
Persistent ==
    [coherence |-> coherence, knowledge_modules |-> knowledge_modules,
     npc_conversations |-> npc_conversations, active_conversation |-> active_conversation,
     npc_opinions |-> npc_opinions, npcs_completed |-> npcs_completed,
     quest_active |-> quest_active, quest_completed_npcs |-> quest_completed_npcs,
     questions_answered |-> questions_answered, questions_correct |-> questions_correct,
     questions_wrong |-> questions_wrong, game_won |-> game_won]

\* no descent was the last step
NoSnapshot == [valid |-> FALSE]

\* a game that has just been constructed
FirstTrip ==
    [first |-> [f \in {current_floor} |-> LayoutOf(npcs, terminals, stairs)],
     before |-> NoSnapshot, returned |-> FALSE]

\* what a step of the game leaves in trip
Tracked ==
    trip' = [first |-> IF current_floor' \in DOMAIN trip.first
                       THEN trip.first
                       ELSE [f \in DOMAIN trip.first \cup {current_floor'} |->
                               IF f = current_floor'
                               THEN LayoutOf(npcs', terminals', stairs')
                               ELSE trip.first[f]],
             before |-> IF current_floor' = current_floor + 1
                        THEN [valid |-> TRUE, current_floor |-> current_floor,
                              persistent |-> Persistent]
                        ELSE NoSnapshot,
             returned |-> trip.before.valid /\ current_floor' = current_floor - 1]

\* the two games of a process, before either is created
GameIds == {"a", "b"}

NoGames ==
    [random |-> 0,
     game |-> [g \in GameIds |->
                  [created |-> FALSE, seed |-> 0, current_floor |-> 0,
                   player |-> [x |-> 0, y |-> 0], log |-> <<>>]]]


Names(data) == {data[i].name : i \in 1..Len(data)}

(***************************************************************************)
(* Game._generate_floor and the three generators it calls.                 *)
(***************************************************************************)
positions == << <<15, 8>>, <<35, 8>>, <<25, 12>>, <<40, 15>>, <<10, 18>>,
                <<45, 12>>, <<30, 20>> >>

\* The wander fields of an NPC: it starts idle at its home cell, with both
\* timers at zero.
WanderFields(x, y, npc_type) ==
    [npc_type |-> npc_type, home_x |-> x, home_y |-> y, move_cooldown |-> 0,
     wander_state |-> "idle", wander_ticks_remaining |-> 0]

Entity(x, y, name, npc_type) ==
    [name |-> name, x |-> x, y |-> y] @@ WanderFields(x, y, npc_type)

Stairs(x, y, direction) == [x |-> x, y |-> y, direction |-> direction]
InfoTerminal(x, y, title) == [title |-> title, x |-> x, y |-> y]

IsOnFloor(floor, info) == info.floor = floor

_generate_npcs(data, floor) ==
    LET onFloor(info) == IsOnFloor(floor, info)
        floor_npcs == SelectSeq(data, onFloor)
    IN  [i \in 1..Min(Len(floor_npcs), Len(positions)) |->
            Entity(positions[i][1], positions[i][2], floor_npcs[i].name,
                   floor_npcs[i].npc_type)]

\* the test of a drawn cell that accepts it at the minimum distance too
accepted_at_minimum(floor, at, x, y) ==
    /\ create_map(map_width, map_height, floor, x, y) # "#"
    /\ \/ Abs(x - at.x) >= NPC_MIN_DISTANCE_FROM_PLAYER
       \/ Abs(y - at.y) >= NPC_MIN_DISTANCE_FROM_PLAYER

\* the test of a drawn cell: not a wall and not too close to the player
accepted(floor, at, x, y) ==
    /\ create_map(map_width, map_height, floor, x, y) # "#"
    /\ \/ Abs(x - at.x) > NPC_MIN_DISTANCE_FROM_PLAYER
       \/ Abs(y - at.y) > NPC_MIN_DISTANCE_FROM_PLAYER

\* all_npcs after the generation of npcs: each new name is appended once
RECURSIVE ExtendAllNpcs(_, _)
ExtendAllNpcs(all, generated) ==
    IF generated = <<>> THEN all
    ELSE LET name == Head(generated).name
             known == \E i \in 1..Len(all) : all[i] = name
         IN  ExtendAllNpcs(IF known THEN all ELSE Append(all, name), Tail(generated))

terminal_defs(floor) ==
    CASE floor = 1 -> << <<"big_o_hint", 8, 8>>, <<"lore_layer1", 12, 10>> >>
      [] floor = 2 -> << <<"data_structures", 8, 8>>, <<"tcp_hint", 12, 10>>,
                         <<"devops_guide", 15, 8>>, <<"lore_layer2", 8, 12>> >>
      [] floor = 3 -> << <<"concurrency_hint", 8, 8>>, <<"database_basics", 12, 8>> >>
      [] OTHER -> <<>>

_generate_terminals(floor) ==
    LET known(d) == d[1] \in terminal_data
        defs == SelectSeq(terminal_defs(floor), known)
    IN  [i \in 1..Len(defs) |-> InfoTerminal(defs[i][2], defs[i][3], defs[i][1])]

\* _generate_stairs that also places stairs down on the last floor
_generate_stairs_last_down(floor) ==
    (IF floor <= max_floors
     THEN <<Stairs(STAIRS_DOWN_DEFAULT_X, STAIRS_DOWN_DEFAULT_Y, "down")>> ELSE <<>>)
    \o
    (IF floor > 1
     THEN <<Stairs(STAIRS_UP_DEFAULT_X, STAIRS_UP_DEFAULT_Y, "up")>> ELSE <<>>)

_generate_stairs(floor) ==
    (IF floor < max_floors
     THEN <<Stairs(STAIRS_DOWN_DEFAULT_X, STAIRS_DOWN_DEFAULT_Y, "down")>> ELSE <<>>)
    \o
    (IF floor > 1
     THEN <<Stairs(STAIRS_UP_DEFAULT_X, STAIRS_UP_DEFAULT_Y, "up")>> ELSE <<>>)

\* The cells the generator is taken to draw on a floor change of a game with
\* random placement.  The terminals are taken to land on the cells of their
\* definitions, which lie in the drawn ranges and are FLOOR cells.
DrawnNpcCells == {<<11, 6>>, <<13, 8>>, <<17, 6>>, <<25, 12>>}
DrawnDownCells == {<<25, 12>>, <<45, 20>>}
DrawnUpCells == {<<3, 3>>, <<4, 3>>}

\* the test of the cell drawn for the stairs down
accepted_down(floor, at, x, y) ==
    /\ x \in (map_width \div 2)..(map_width - 2)
    /\ y \in (map_height \div 2)..(map_height - 2)
    /\ create_map(map_width, map_height, floor, x, y) # "#"
    /\ Abs(x - at.x) > 10

\* the test of the cell drawn for the stairs up
accepted_up(floor, x, y) ==
    /\ x \in 2..(map_width \div 3)
    /\ y \in 2..(map_height \div 3)
    /\ create_map(map_width, map_height, floor, x, y) # "#"

\* the NPCs of the floor on the cells drawn for them, each cell accepted
random_npcs_at(data, floor, at, cells) ==
    LET onFloor(info) == IsOnFloor(floor, info)
        floor_npcs == SelectSeq(data, onFloor)
    IN  [i \in 1..Len(floor_npcs) |->
            Entity(cells[i][1], cells[i][2], floor_npcs[i].name, floor_npcs[i].npc_type)]

CellsAccepted(floor, at, cells) ==
    \A i \in DOMAIN cells :
        /\ cells[i][1] \in 10..(map_width - 2)
        /\ cells[i][2] \in 5..(map_height - 2)
        /\ accepted(floor, at, cells[i][1], cells[i][2])

\* the stairs of the floor on the cells drawn for them
random_stairs_at(floor, down, up) ==
    (IF floor < max_floors THEN <<Stairs(down[1], down[2], "down")>> ELSE <<>>)
    \o
    (IF floor > 1 THEN <<Stairs(up[1], up[2], "up")>> ELSE <<>>)

\* the floor-local entity lists after _generate_floor() on floor; with random
\* placement the player is already on the arrival cell when the cells are drawn
_generate_floor(floor) ==
    IF random_npcs
    THEN LET onFloor(info) == IsOnFloor(floor, info)
             count == Len(SelectSeq(npc_data, onFloor))
         IN  /\ \E cells \in [1..count -> DrawnNpcCells] :
                    /\ CellsAccepted(floor, player', cells)
                    /\ npcs' = random_npcs_at(npc_data, floor, player', cells)
                    /\ all_npcs' = ExtendAllNpcs(all_npcs,
                                        random_npcs_at(npc_data, floor, player', cells))
             /\ terminals' = _generate_terminals(floor)
             /\ \E down \in DrawnDownCells, up \in DrawnUpCells :
                    /\ floor < max_floors => accepted_down(floor, player', down[1], down[2])
                    /\ floor > 1 => accepted_up(floor, up[1], up[2])
                    /\ stairs' = random_stairs_at(floor, down, up)
    ELSE /\ npcs' = _generate_npcs(npc_data, floor)
         /\ terminals' = _generate_terminals(floor)
         /\ stairs' = _generate_stairs(floor)
         /\ all_npcs' = ExtendAllNpcs(all_npcs, _generate_npcs(npc_data, floor))

(***************************************************************************)
(* Game.__init__                                                           *)
(***************************************************************************)
GameInit(data, shuffle) ==
    /\ npc_data = data
    /\ old_npc_positions = [n \in {} |-> <<0, 0>>]
    /\ gates = <<>>
    /\ random_npcs = FALSE
    /\ opened = {}
    /\ current_floor = 1
    /\ game_map = 1
    /\ player = [x |-> PLAYER_START_X, y |-> PLAYER_START_Y]
    /\ old_player_pos = NONE
    /\ active_conversation = NONE
    /\ active_terminal = NONE
    /\ npc_conversations =
         [n \in Names(data) |->
            LET info == CHOOSE d \in {data[i] : i \in 1..Len(data)} : d.name = n
            IN  create_randomized_conversation(info, shuffle)]
    /\ coherence = STARTING_COHERENCE
    /\ knowledge_modules = {}
    /\ questions_answered = 0
    /\ questions_correct = 0
    /\ questions_wrong = 0
    /\ npcs_completed = {}
    /\ game_won = FALSE
    /\ npc_opinions = [n \in {} |-> 0]
    /\ quest_active = FALSE
    /\ quest_completed_npcs = {}
    /\ message = "welcome"
    /\ ret = NONE
    /\ npcs = _generate_npcs(data, 1)
    /\ terminals = _generate_terminals(1)
    /\ stairs = _generate_stairs(1)
    /\ all_npcs = ExtendAllNpcs(<<>>, _generate_npcs(data, 1))


(***************************************************************************)
(* Game.is_walkable, Game.move_player                                      *)
(***************************************************************************)
\* is_walkable that tests the bounds only
is_walkable_bounds(x, y) ==
    IF y < 0 \/ y >= map_height THEN FALSE
    ELSE IF x < 0 \/ x >= map_width THEN FALSE
    ELSE TRUE

is_walkable(x, y) ==
    IF y < 0 \/ y >= map_height THEN FALSE
    ELSE IF x < 0 \/ x >= map_width THEN FALSE
    ELSE IF create_map(map_width, map_height, game_map, x, y) = "#" THEN FALSE
    ELSE TRUE

OnStairs(px, py) == \E i \in 1..Len(stairs) : stairs[i].x = px /\ stairs[i].y = py

\* move_player without the check for an active conversation
move_player_while_talking(dx, dy) ==
    LET new_x == player.x + dx
        new_y == player.y + dy
    IN
    /\ IF is_walkable(new_x, new_y)
       THEN /\ old_player_pos' = <<player.x, player.y>>
            /\ player' = [x |-> new_x, y |-> new_y]
            /\ message' = IF OnStairs(new_x, new_y) THEN "standing_on_stairs" ELSE ""
            /\ ret' = TRUE
       ELSE /\ message' = "blocked"
            /\ ret' = FALSE
            /\ UNCHANGED playerVars
    /\ UNCHANGED <<restVars, floorVars, convVars, active_terminal, statVars,
                   scoreVars, questVars>>

move_player(dx, dy) ==
    LET new_x == player.x + dx
        new_y == player.y + dy
    IN
    /\ IF active_conversation # NONE
       THEN /\ message' = "in_conversation"
            /\ ret' = FALSE
            /\ UNCHANGED playerVars
       ELSE IF is_walkable(new_x, new_y)
       THEN /\ old_player_pos' = <<player.x, player.y>>
            /\ player' = [x |-> new_x, y |-> new_y]
            /\ message' = IF OnStairs(new_x, new_y) THEN "standing_on_stairs" ELSE ""
            /\ ret' = TRUE
       ELSE /\ message' = "blocked"
            /\ ret' = FALSE
            /\ UNCHANGED playerVars
    /\ UNCHANGED <<restVars, floorVars, convVars, active_terminal, statVars,
                   scoreVars, questVars>>

(***************************************************************************)
(* Game.is_floor_complete, Game._descend_stairs, Game._ascend_stairs,      *)
(* Game.use_stairs                                                         *)
(***************************************************************************)
\* is_floor_complete satisfied by any one completed required NPC
is_floor_complete_any ==
    \E npc_name \in FLOOR_REQUIRED_NPCS(current_floor) :
        /\ npc_name \in DOMAIN npc_conversations
        /\ npc_conversations[npc_name].completed

is_floor_complete ==
    \A npc_name \in FLOOR_REQUIRED_NPCS(current_floor) :
        /\ npc_name \in DOMAIN npc_conversations
        /\ npc_conversations[npc_name].completed

Refused(kind) ==
    /\ message' = kind
    /\ ret' = FALSE
    /\ UNCHANGED <<restVars, floorVars, playerVars, convVars, active_terminal,
                   statVars, scoreVars, questVars>>

\* _descend_stairs that starts the new floor at the starting coherence
_descend_stairs_restored ==
    IF current_floor >= max_floors THEN Refused("no_deeper")
    ELSE IF ~is_floor_complete THEN Refused("cannot_descend")
    ELSE /\ current_floor' = current_floor + 1
         /\ game_map' = current_floor + 1
         /\ player' = [x |-> STAIRS_UP_DEFAULT_X, y |-> STAIRS_UP_DEFAULT_Y]
         /\ _generate_floor(current_floor + 1)
         /\ message' = "descended"
         /\ ret' = TRUE
         /\ coherence' = STARTING_COHERENCE
         /\ UNCHANGED <<restVars, old_player_pos, convVars, active_terminal,
                        knowledge_modules, npc_opinions, scoreVars, questVars>>

\* _descend_stairs that counts the floor twice, once before the grid is
\* built and once before the floor is generated
_descend_stairs_twice ==
    IF current_floor >= max_floors THEN Refused("no_deeper")
    ELSE IF ~is_floor_complete THEN Refused("cannot_descend")
    ELSE /\ current_floor' = current_floor + 2
         /\ game_map' = current_floor + 1
         /\ player' = [x |-> STAIRS_UP_DEFAULT_X, y |-> STAIRS_UP_DEFAULT_Y]
         /\ _generate_floor(current_floor + 2)
         /\ message' = "descended"
         /\ ret' = TRUE
         /\ UNCHANGED <<restVars, old_player_pos, convVars, active_terminal,
                        statVars, scoreVars, questVars>>

_descend_stairs ==
    IF current_floor >= max_floors THEN Refused("no_deeper")
    ELSE IF ~is_floor_complete THEN Refused("cannot_descend")
    ELSE /\ current_floor' = current_floor + 1
         /\ game_map' = current_floor + 1
         /\ player' = [x |-> STAIRS_UP_DEFAULT_X, y |-> STAIRS_UP_DEFAULT_Y]
         /\ _generate_floor(current_floor + 1)
         /\ message' = "descended"
         /\ ret' = TRUE
         /\ UNCHANGED <<restVars, old_player_pos, convVars, active_terminal,
                        statVars, scoreVars, questVars>>

\* _ascend_stairs that creates the conversations of the floor's NPCs anew
_ascend_stairs_fresh ==
    IF current_floor <= 1 THEN Refused("top_layer")
    ELSE /\ current_floor' = current_floor - 1
         /\ game_map' = current_floor - 1
         /\ player' = [x |-> STAIRS_DOWN_DEFAULT_X, y |-> STAIRS_DOWN_DEFAULT_Y]
         /\ _generate_floor(current_floor - 1)
         /\ message' = "ascended"
         /\ ret' = TRUE
         /\ npc_conversations' =
              [n \in DOMAIN npc_conversations |->
                 IF \E i \in 1..Len(npc_data) :
                        npc_data[i].name = n /\ npc_data[i].floor = current_floor - 1
                 THEN [npc_conversations[n] EXCEPT !.current_question_idx = 0,
                                                   !.completed = FALSE]
                 ELSE npc_conversations[n]]
         /\ UNCHANGED <<restVars, old_player_pos, active_conversation, active_terminal,
                        statVars, scoreVars, questVars>>

\* _ascend_stairs that puts the player where a descent does
_ascend_stairs_at_arrival ==
    IF current_floor <= 1 THEN Refused("top_layer")
    ELSE /\ current_floor' = current_floor - 1
         /\ game_map' = current_floor - 1
         /\ player' = [x |-> STAIRS_UP_DEFAULT_X, y |-> STAIRS_UP_DEFAULT_Y]
         /\ _generate_floor(current_floor - 1)
         /\ message' = "ascended"
         /\ ret' = TRUE
         /\ UNCHANGED <<restVars, old_player_pos, convVars, active_terminal,
                        statVars, scoreVars, questVars>>

_ascend_stairs ==
    IF current_floor <= 1 THEN Refused("top_layer")
    ELSE /\ current_floor' = current_floor - 1
         /\ game_map' = current_floor - 1
         /\ player' = [x |-> STAIRS_DOWN_DEFAULT_X, y |-> STAIRS_DOWN_DEFAULT_Y]
         /\ _generate_floor(current_floor - 1)
         /\ message' = "ascended"
         /\ ret' = TRUE
         /\ UNCHANGED <<restVars, old_player_pos, convVars, active_terminal,
                        statVars, scoreVars, questVars>>

\* use_stairs that takes stairs next to the player as well
use_stairs_adjacent ==
    LET here(stair) == /\ Abs(player.x - stair.x) <= 1
                       /\ Abs(player.y - stair.y) <= 1
        found == SelectSeq(stairs, here)
    IN  IF found # <<>> /\ found[1].direction = "down" THEN _descend_stairs
        ELSE IF found # <<>> /\ found[1].direction = "up" THEN _ascend_stairs
        ELSE Refused("no_stairs")

use_stairs ==
    LET here(stair) == player.x = stair.x /\ player.y = stair.y
        found == SelectSeq(stairs, here)
    IN  IF found # <<>> /\ found[1].direction = "down" THEN _descend_stairs
        ELSE IF found # <<>> /\ found[1].direction = "up" THEN _ascend_stairs
        ELSE Refused("no_stairs")


(***************************************************************************)
(* Game._handle_quest_npc, Game._interact_with_npc, Game.interact          *)
(***************************************************************************)
_handle_quest_npc(npc_name) ==
    IF ~npc_conversations[npc_name].completed
    THEN /\ quest_active' = TRUE
         /\ message' = "greeting"
         /\ npc_conversations' = [npc_conversations EXCEPT ![npc_name].completed = TRUE]
         /\ ret' = TRUE
         /\ UNCHANGED <<restVars, floorVars, playerVars, active_conversation,
                        active_terminal, statVars, scoreVars, quest_completed_npcs>>
    ELSE /\ IF QUEST_TARGET_NPCS \subseteq quest_completed_npcs
            THEN /\ message' = "quest_complete"
                 /\ coherence' = Min(max_coherence,
                                     coherence + QUEST_COMPLETION_COHERENCE_BONUS)
            ELSE /\ message' = "quest_remaining"
                 /\ UNCHANGED coherence
         /\ ret' = TRUE
         /\ UNCHANGED <<restVars, floorVars, playerVars, convVars, active_terminal,
                        knowledge_modules, npc_opinions, scoreVars, questVars>>

\* _interact_with_npc that restarts the conversation at its first question
_interact_with_npc_restart(npc) ==
    LET npc_name == npc.name IN
    IF npc_name \notin DOMAIN npc_conversations THEN Refused("nothing_to_say")
    ELSE LET conversation == npc_conversations[npc_name] IN
    IF conversation.npc_type = "helper" /\ ~conversation.completed
    THEN /\ coherence' = Min(max_coherence, coherence + HELPER_COHERENCE_RESTORE)
         /\ npc_conversations' = [npc_conversations EXCEPT ![npc_name].completed = TRUE]
         /\ message' = "coherence_restored"
         /\ ret' = TRUE
         /\ UNCHANGED <<restVars, floorVars, playerVars, active_conversation,
                        active_terminal, knowledge_modules, npc_opinions, scoreVars,
                        questVars>>
    ELSE IF conversation.npc_type = "quest" THEN _handle_quest_npc(npc_name)
    ELSE IF ~conversation.completed
    THEN /\ active_conversation' = npc_name
         /\ npc_conversations' =
              [npc_conversations EXCEPT ![npc_name].current_question_idx = 0]
         /\ message' = "greeting"
         /\ ret' = TRUE
         /\ UNCHANGED <<restVars, floorVars, playerVars,
                        active_terminal, statVars, scoreVars, questVars>>
    ELSE /\ message' = "nothing_more"
         /\ ret' = TRUE
         /\ UNCHANGED <<restVars, floorVars, playerVars, convVars, active_terminal,
                        statVars, scoreVars, questVars>>

\* _interact_with_npc whose helper restores coherence without being marked completed
_interact_with_npc_helper_again(npc) ==
    LET npc_name == npc.name IN
    IF npc_name \notin DOMAIN npc_conversations THEN Refused("nothing_to_say")
    ELSE LET conversation == npc_conversations[npc_name] IN
    IF conversation.npc_type = "helper" /\ ~conversation.completed
    THEN /\ coherence' = Min(max_coherence, coherence + HELPER_COHERENCE_RESTORE)
         /\ message' = "coherence_restored"
         /\ ret' = TRUE
         /\ UNCHANGED <<restVars, floorVars, playerVars, convVars,
                        active_terminal, knowledge_modules, npc_opinions, scoreVars,
                        questVars>>
    ELSE IF conversation.npc_type = "quest" THEN _handle_quest_npc(npc_name)
    ELSE IF ~conversation.completed
    THEN /\ active_conversation' = npc_name
         /\ message' = "greeting"
         /\ ret' = TRUE
         /\ UNCHANGED <<restVars, floorVars, playerVars, npc_conversations,
                        active_terminal, statVars, scoreVars, questVars>>
    ELSE /\ message' = "nothing_more"
         /\ ret' = TRUE
         /\ UNCHANGED <<restVars, floorVars, playerVars, convVars, active_terminal,
                        statVars, scoreVars, questVars>>

_interact_with_npc(npc) ==
    LET npc_name == npc.name IN
    IF npc_name \notin DOMAIN npc_conversations THEN Refused("nothing_to_say")
    ELSE LET conversation == npc_conversations[npc_name] IN
    IF conversation.npc_type = "helper" /\ ~conversation.completed
    THEN /\ coherence' = Min(max_coherence, coherence + HELPER_COHERENCE_RESTORE)
         /\ npc_conversations' = [npc_conversations EXCEPT ![npc_name].completed = TRUE]
         /\ message' = "coherence_restored"
         /\ ret' = TRUE
         /\ UNCHANGED <<restVars, floorVars, playerVars, active_conversation,
                        active_terminal, knowledge_modules, npc_opinions, scoreVars,
                        questVars>>
    ELSE IF conversation.npc_type = "quest" THEN _handle_quest_npc(npc_name)
    ELSE IF ~conversation.completed
    THEN /\ active_conversation' = npc_name
         /\ message' = "greeting"
         /\ ret' = TRUE
         /\ UNCHANGED <<restVars, floorVars, playerVars, npc_conversations,
                        active_terminal, statVars, scoreVars, questVars>>
    ELSE /\ message' = "nothing_more"
         /\ ret' = TRUE
         /\ UNCHANGED <<restVars, floorVars, playerVars, convVars, active_terminal,
                        statVars, scoreVars, questVars>>

\* priority_map that ranks terminals before NPCs
priority_map_terminal_first(kind) ==
    CASE kind = "terminal" -> 0 [] kind = "npc" -> 1 [] kind = "stairs" -> 2

priority_map(kind) ==
    CASE kind = "npc" -> 0 [] kind = "terminal" -> 1 [] kind = "stairs" -> 2

Dist(entity) == Max(Abs(player.x - entity.x), Abs(player.y - entity.y))

\* the entities of one list within distance 1, in list order
Near(kind, entities) ==
    LET close(c) == c.dist <= 1
    IN  SelectSeq([i \in 1..Len(entities) |->
                     [kind |-> kind, dist |-> Dist(entities[i]), entity |-> entities[i]]],
                  close)

candidates == Near("terminal", terminals) \o Near("npc", npcs) \o Near("stairs", stairs)

SortsBefore(a, b) ==
    \/ a.dist < b.dist
    \/ a.dist = b.dist /\ priority_map(a.kind) < priority_map(b.kind)

\* candidates[0] after the stable sort by (distance, priority)
FirstCandidate ==
    LET found == candidates
        first == CHOOSE i \in 1..Len(found) :
                    /\ \A j \in 1..Len(found) : ~SortsBefore(found[j], found[i])
                    /\ \A j \in 1..(i - 1) : SortsBefore(found[i], found[j])
    IN  found[first]

\* interact that, during a conversation, ends the conversation
interact_closing ==
    IF active_conversation # NONE
    THEN /\ active_conversation' = NONE
         /\ message' = "conversation_ended"
         /\ ret' = TRUE
         /\ UNCHANGED <<restVars, floorVars, playerVars, npc_conversations,
                        active_terminal, statVars, scoreVars, questVars>>
    ELSE IF candidates = <<>> THEN Refused("no_one_nearby")
        ELSE LET first == FirstCandidate IN
        IF first.kind = "terminal"
        THEN /\ active_terminal' = first.entity.title
             /\ message' = "reading"
             /\ ret' = TRUE
             /\ UNCHANGED <<restVars, floorVars, playerVars, convVars, statVars,
                            scoreVars, questVars>>
        ELSE IF first.kind = "npc" THEN _interact_with_npc(first.entity)
        ELSE use_stairs

\* interact that files the title of the terminal it shows among the knowledge
\* modules
interact_learning ==
    IF candidates = <<>> THEN Refused("no_one_nearby")
    ELSE LET first == FirstCandidate IN
    IF first.kind = "terminal"
    THEN /\ active_terminal' = first.entity.title
         /\ knowledge_modules' = knowledge_modules \cup {first.entity.title}
         /\ message' = "reading"
         /\ ret' = TRUE
         /\ UNCHANGED <<restVars, floorVars, playerVars, convVars, coherence,
                        npc_opinions, scoreVars, questVars>>
    ELSE IF first.kind = "npc" THEN _interact_with_npc(first.entity)
    ELSE use_stairs

interact ==
    IF candidates = <<>> THEN Refused("no_one_nearby")
    ELSE LET first == FirstCandidate IN
    IF first.kind = "terminal"
    THEN /\ active_terminal' = first.entity.title
         /\ message' = "reading"
         /\ ret' = TRUE
         /\ UNCHANGED <<restVars, floorVars, playerVars, convVars, statVars,
                        scoreVars, questVars>>
    ELSE IF first.kind = "npc" THEN _interact_with_npc(first.entity)
    ELSE use_stairs

(***************************************************************************)
(* Game.answer_question with _handle_correct_answer, _handle_wrong_answer  *)
(***************************************************************************)
Opinion(npc_name) == IF npc_name \in DOMAIN npc_opinions THEN npc_opinions[npc_name] ELSE 0

SetOpinion(npc_name, value) ==
    [n \in DOMAIN npc_opinions \cup {npc_name} |->
        IF n = npc_name THEN value ELSE npc_opinions[n]]

victory_bosses == {"VIRUS_HUNTER", "THEORY_ORACLE", "AI_CONSCIOUSNESS"}

\* _handle_correct_answer without the cap at max_coherence
_handle_correct_answer_uncapped(conv, answer, npc_name, is_enemy) ==
    LET advanced == conv.current_question_idx + 1
        complete == advanced >= Len(conv.questions)
    IN
    /\ coherence' = coherence + CORRECT_ANSWER_COHERENCE_GAIN
    /\ npc_opinions' = SetOpinion(npc_name, Opinion(npc_name) + 1)
    /\ questions_answered' = questions_answered + 1
    /\ questions_correct' = questions_correct + 1
    /\ knowledge_modules' = IF answer.reward_knowledge # NONE
                            THEN knowledge_modules \cup {answer.reward_knowledge}
                            ELSE knowledge_modules
    /\ npc_conversations' =
         [npc_conversations EXCEPT ![npc_name].current_question_idx = advanced,
                                   ![npc_name].completed = IF complete THEN TRUE ELSE @]
    /\ npcs_completed' = IF complete THEN npcs_completed \cup {npc_name}
                         ELSE npcs_completed
    /\ game_won' = IF complete /\ current_floor = max_floors
                      /\ npc_name \in victory_bosses
                   THEN TRUE ELSE game_won
    /\ quest_completed_npcs' = IF complete /\ conv.npc_type = "specialist"
                               THEN quest_completed_npcs \cup {npc_name}
                               ELSE quest_completed_npcs
    /\ active_conversation' = IF complete THEN NONE ELSE active_conversation
    /\ ret' = TRUE
    /\ UNCHANGED <<restVars, floorVars, playerVars, active_terminal, questions_wrong,
                   quest_active, message>>

\* _handle_correct_answer that records every completed NPC for the quest
_handle_correct_answer_quest_any(conv, answer, npc_name, is_enemy) ==
    LET advanced == conv.current_question_idx + 1
        complete == advanced >= Len(conv.questions)
    IN
    /\ coherence' = Min(max_coherence, coherence + CORRECT_ANSWER_COHERENCE_GAIN)
    /\ npc_opinions' = SetOpinion(npc_name, Opinion(npc_name) + 1)
    /\ questions_answered' = questions_answered + 1
    /\ questions_correct' = questions_correct + 1
    /\ knowledge_modules' = IF answer.reward_knowledge # NONE
                            THEN knowledge_modules \cup {answer.reward_knowledge}
                            ELSE knowledge_modules
    /\ npc_conversations' =
         [npc_conversations EXCEPT ![npc_name].current_question_idx = advanced,
                                   ![npc_name].completed = IF complete THEN TRUE ELSE @]
    /\ npcs_completed' = IF complete THEN npcs_completed \cup {npc_name}
                         ELSE npcs_completed
    /\ game_won' = IF complete /\ current_floor = max_floors
                      /\ npc_name \in victory_bosses
                   THEN TRUE ELSE game_won
    /\ quest_completed_npcs' = IF complete
                               THEN quest_completed_npcs \cup {npc_name}
                               ELSE quest_completed_npcs
    /\ active_conversation' = IF complete THEN NONE ELSE active_conversation
    /\ ret' = TRUE
    /\ UNCHANGED <<restVars, floorVars, playerVars, active_terminal, questions_wrong,
                   quest_active, message>>

\* _handle_correct_answer that assigns the reward instead of adding it
_handle_correct_answer_assign(conv, answer, npc_name, is_enemy) ==
    LET advanced == conv.current_question_idx + 1
        complete == advanced >= Len(conv.questions)
    IN
    /\ coherence' = Min(max_coherence, coherence + CORRECT_ANSWER_COHERENCE_GAIN)
    /\ npc_opinions' = SetOpinion(npc_name, Opinion(npc_name) + 1)
    /\ questions_answered' = questions_answered + 1
    /\ questions_correct' = questions_correct + 1
    /\ knowledge_modules' = IF answer.reward_knowledge # NONE
                            THEN {answer.reward_knowledge}
                            ELSE knowledge_modules
    /\ npc_conversations' =
         [npc_conversations EXCEPT ![npc_name].current_question_idx = advanced,
                                   ![npc_name].completed = IF complete THEN TRUE ELSE @]
    /\ npcs_completed' = IF complete THEN npcs_completed \cup {npc_name}
                         ELSE npcs_completed
    /\ game_won' = IF complete /\ current_floor = max_floors
                      /\ npc_name \in victory_bosses
                   THEN TRUE ELSE game_won
    /\ quest_completed_npcs' = IF complete /\ conv.npc_type = "specialist"
                               THEN quest_completed_npcs \cup {npc_name}
                               ELSE quest_completed_npcs
    /\ active_conversation' = IF complete THEN NONE ELSE active_conversation
    /\ ret' = TRUE
    /\ UNCHANGED <<restVars, floorVars, playerVars, active_terminal, questions_wrong,
                   quest_active, message>>

\* _handle_correct_answer on one record shared by the NPCs of a type
_handle_correct_answer_shared(conv, answer, npc_name, is_enemy) ==
    LET advanced == conv.current_question_idx + 1
        complete == advanced >= Len(conv.questions)
    IN
    /\ coherence' = Min(max_coherence, coherence + CORRECT_ANSWER_COHERENCE_GAIN)
    /\ npc_opinions' = SetOpinion(npc_name, Opinion(npc_name) + 1)
    /\ questions_answered' = questions_answered + 1
    /\ questions_correct' = questions_correct + 1
    /\ knowledge_modules' = IF answer.reward_knowledge # NONE
                            THEN knowledge_modules \cup {answer.reward_knowledge}
                            ELSE knowledge_modules
    /\ npc_conversations' =
         [n \in DOMAIN npc_conversations |->
             IF npc_conversations[n].npc_type = conv.npc_type
             THEN [npc_conversations[n] EXCEPT
                       !.current_question_idx = advanced,
                       !.completed = IF complete THEN TRUE ELSE @]
             ELSE npc_conversations[n]]
    /\ npcs_completed' = IF complete THEN npcs_completed \cup {npc_name}
                         ELSE npcs_completed
    /\ game_won' = IF complete /\ current_floor = max_floors
                      /\ npc_name \in victory_bosses
                   THEN TRUE ELSE game_won
    /\ quest_completed_npcs' = IF complete /\ conv.npc_type = "specialist"
                               THEN quest_completed_npcs \cup {npc_name}
                               ELSE quest_completed_npcs
    /\ active_conversation' = IF complete THEN NONE ELSE active_conversation
    /\ ret' = TRUE
    /\ UNCHANGED <<restVars, floorVars, playerVars, active_terminal, questions_wrong,
                   quest_active, message>>

\* _handle_correct_answer that leaves a completed conversation active
_handle_correct_answer_lingering(conv, answer, npc_name, is_enemy) ==
    LET advanced == conv.current_question_idx + 1
        complete == advanced >= Len(conv.questions)
    IN
    /\ coherence' = Min(max_coherence, coherence + CORRECT_ANSWER_COHERENCE_GAIN)
    /\ npc_opinions' = SetOpinion(npc_name, Opinion(npc_name) + 1)
    /\ questions_answered' = questions_answered + 1
    /\ questions_correct' = questions_correct + 1
    /\ knowledge_modules' = IF answer.reward_knowledge # NONE
                            THEN knowledge_modules \cup {answer.reward_knowledge}
                            ELSE knowledge_modules
    /\ npc_conversations' =
         [npc_conversations EXCEPT ![npc_name].current_question_idx = advanced,
                                   ![npc_name].completed = IF complete THEN TRUE ELSE @]
    /\ npcs_completed' = IF complete THEN npcs_completed \cup {npc_name}
                         ELSE npcs_completed
    /\ game_won' = IF complete /\ current_floor = max_floors
                      /\ npc_name \in victory_bosses
                   THEN TRUE ELSE game_won
    /\ quest_completed_npcs' = IF complete /\ conv.npc_type = "specialist"
                               THEN quest_completed_npcs \cup {npc_name}
                               ELSE quest_completed_npcs
    /\ active_conversation' = active_conversation
    /\ ret' = TRUE
    /\ UNCHANGED <<restVars, floorVars, playerVars, active_terminal, questions_wrong,
                   quest_active, message>>

\* _handle_correct_answer that records a specialist only while the quest is active
_handle_correct_answer_quest_gated(conv, answer, npc_name, is_enemy) ==
    LET advanced == conv.current_question_idx + 1
        complete == advanced >= Len(conv.questions)
    IN
    /\ coherence' = Min(max_coherence, coherence + CORRECT_ANSWER_COHERENCE_GAIN)
    /\ npc_opinions' = SetOpinion(npc_name, Opinion(npc_name) + 1)
    /\ questions_answered' = questions_answered + 1
    /\ questions_correct' = questions_correct + 1
    /\ knowledge_modules' = IF answer.reward_knowledge # NONE
                            THEN knowledge_modules \cup {answer.reward_knowledge}
                            ELSE knowledge_modules
    /\ npc_conversations' =
         [npc_conversations EXCEPT ![npc_name].current_question_idx = advanced,
                                   ![npc_name].completed = IF complete THEN TRUE ELSE @]
    /\ npcs_completed' = IF complete THEN npcs_completed \cup {npc_name}
                         ELSE npcs_completed
    /\ game_won' = IF complete /\ current_floor = max_floors
                      /\ npc_name \in victory_bosses
                   THEN TRUE ELSE game_won
    /\ quest_completed_npcs' = IF complete /\ conv.npc_type = "specialist" /\ quest_active
                               THEN quest_completed_npcs \cup {npc_name}
                               ELSE quest_completed_npcs
    /\ active_conversation' = IF complete THEN NONE ELSE active_conversation
    /\ ret' = TRUE
    /\ UNCHANGED <<restVars, floorVars, playerVars, active_terminal, questions_wrong,
                   quest_active, message>>

_handle_correct_answer(conv, answer, npc_name, is_enemy) ==
    LET advanced == conv.current_question_idx + 1
        complete == advanced >= Len(conv.questions)
    IN
    /\ coherence' = Min(max_coherence, coherence + CORRECT_ANSWER_COHERENCE_GAIN)
    /\ npc_opinions' = SetOpinion(npc_name, Opinion(npc_name) + 1)
    /\ questions_answered' = questions_answered + 1
    /\ questions_correct' = questions_correct + 1
    /\ knowledge_modules' = IF answer.reward_knowledge # NONE
                            THEN knowledge_modules \cup {answer.reward_knowledge}
                            ELSE knowledge_modules
    /\ npc_conversations' =
         [npc_conversations EXCEPT ![npc_name].current_question_idx = advanced,
                                   ![npc_name].completed = IF complete THEN TRUE ELSE @]
    /\ npcs_completed' = IF complete THEN npcs_completed \cup {npc_name}
                         ELSE npcs_completed
    /\ game_won' = IF complete /\ current_floor = max_floors
                      /\ npc_name \in victory_bosses
                   THEN TRUE ELSE game_won
    /\ quest_completed_npcs' = IF complete /\ conv.npc_type = "specialist"
                               THEN quest_completed_npcs \cup {npc_name}
                               ELSE quest_completed_npcs
    /\ active_conversation' = IF complete THEN NONE ELSE active_conversation
    /\ ret' = TRUE
    /\ UNCHANGED <<restVars, floorVars, playerVars, active_terminal, questions_wrong,
                   quest_active, message>>

\* _handle_wrong_answer that ends the conversation only below zero
_handle_wrong_answer_late_clear(conv, answer, npc_name, is_enemy) ==
    LET penalty == IF is_enemy THEN ENEMY_WRONG_ANSWER_PENALTY
                   ELSE WRONG_ANSWER_COHERENCE_PENALTY
    IN
    /\ coherence' = Max(0, coherence - penalty)
    /\ npc_opinions' = SetOpinion(npc_name, Opinion(npc_name) - 1)
    /\ questions_answered' = questions_answered + 1
    /\ questions_wrong' = questions_wrong + 1
    /\ active_conversation' = IF Max(0, coherence - penalty) < 0 THEN NONE
                              ELSE active_conversation
    /\ ret' = FALSE
    /\ UNCHANGED <<restVars, floorVars, playerVars, npc_conversations, active_terminal,
                   knowledge_modules, questions_correct, npcs_completed, game_won,
                   questVars, message>>

\* _handle_wrong_answer without the floor at zero
_handle_wrong_answer_unclamped(conv, answer, npc_name, is_enemy) ==
    LET penalty == IF is_enemy THEN ENEMY_WRONG_ANSWER_PENALTY
                   ELSE WRONG_ANSWER_COHERENCE_PENALTY
    IN
    /\ coherence' = coherence - penalty
    /\ npc_opinions' = SetOpinion(npc_name, Opinion(npc_name) - 1)
    /\ questions_answered' = questions_answered + 1
    /\ questions_wrong' = questions_wrong + 1
    /\ active_conversation' = IF coherence - penalty <= 0 THEN NONE
                              ELSE active_conversation
    /\ ret' = FALSE
    /\ UNCHANGED <<restVars, floorVars, playerVars, npc_conversations, active_terminal,
                   knowledge_modules, questions_correct, npcs_completed, game_won,
                   questVars, message>>

_handle_wrong_answer(conv, answer, npc_name, is_enemy) ==
    LET penalty == IF is_enemy THEN ENEMY_WRONG_ANSWER_PENALTY
                   ELSE WRONG_ANSWER_COHERENCE_PENALTY
    IN
    /\ coherence' = Max(0, coherence - penalty)
    /\ npc_opinions' = SetOpinion(npc_name, Opinion(npc_name) - 1)
    /\ questions_answered' = questions_answered + 1
    /\ questions_wrong' = questions_wrong + 1
    /\ active_conversation' = IF Max(0, coherence - penalty) <= 0 THEN NONE
                              ELSE active_conversation
    /\ ret' = FALSE
    /\ UNCHANGED <<restVars, floorVars, playerVars, npc_conversations, active_terminal,
                   knowledge_modules, questions_correct, npcs_completed, game_won,
                   questVars, message>>

\* answer_question that checks the upper end of the index range only: a
\* negative index counts from the end of the answer list
answer_question_wrapping(answer_index) ==
    IF active_conversation = NONE
    THEN /\ ret' = FALSE
         /\ UNCHANGED <<restVars, floorVars, playerVars, convVars, active_terminal,
                        statVars, scoreVars, questVars, message>>
    ELSE LET conv == npc_conversations[active_conversation] IN
    IF conv.current_question_idx >= Len(conv.questions)
    THEN /\ npc_conversations' =
              [npc_conversations EXCEPT ![active_conversation].completed = TRUE]
         /\ active_conversation' = NONE
         /\ ret' = TRUE
         /\ UNCHANGED <<restVars, floorVars, playerVars, active_terminal, statVars,
                        scoreVars, questVars, message>>
    ELSE LET question == conv.questions[conv.current_question_idx + 1] IN
    IF answer_index >= Len(question) \/ answer_index < 0 - Len(question)
    THEN /\ ret' = FALSE
         /\ UNCHANGED <<restVars, floorVars, playerVars, convVars, active_terminal,
                        statVars, scoreVars, questVars, message>>
    ELSE LET answer == question[IF answer_index < 0
                                THEN Len(question) + answer_index + 1
                                ELSE answer_index + 1]
             npc_name == conv.npc_name
             is_enemy == conv.npc_type = "enemy"
         IN  IF answer.correct
             THEN _handle_correct_answer(conv, answer, npc_name, is_enemy)
             ELSE _handle_wrong_answer(conv, answer, npc_name, is_enemy)

\* answer_index is 0-based, as in the code; sequences here are 1-based
answer_question(answer_index) ==
    IF active_conversation = NONE
    THEN /\ ret' = FALSE
         /\ UNCHANGED <<restVars, floorVars, playerVars, convVars, active_terminal,
                        statVars, scoreVars, questVars, message>>
    ELSE LET conv == npc_conversations[active_conversation] IN
    IF conv.current_question_idx >= Len(conv.questions)
    THEN /\ npc_conversations' =
              [npc_conversations EXCEPT ![active_conversation].completed = TRUE]
         /\ active_conversation' = NONE
         /\ ret' = TRUE
         /\ UNCHANGED <<restVars, floorVars, playerVars, active_terminal, statVars,
                        scoreVars, questVars, message>>
    ELSE LET question == conv.questions[conv.current_question_idx + 1] IN
    IF answer_index < 0 \/ answer_index >= Len(question)
    THEN /\ ret' = FALSE
         /\ UNCHANGED <<restVars, floorVars, playerVars, convVars, active_terminal,
                        statVars, scoreVars, questVars, message>>
    ELSE LET answer == question[answer_index + 1]
             npc_name == conv.npc_name
             is_enemy == conv.npc_type = "enemy"
         IN  IF answer.correct
             THEN _handle_correct_answer(conv, answer, npc_name, is_enemy)
             ELSE _handle_wrong_answer(conv, answer, npc_name, is_enemy)

(***************************************************************************)
(* Game.exit_conversation                                                  *)
(***************************************************************************)
\* exit_conversation that puts the conversation back to its first question
exit_conversation_reset ==
    /\ IF active_conversation # NONE
       THEN /\ active_conversation' = NONE
            /\ npc_conversations' =
                 [npc_conversations EXCEPT ![active_conversation].current_question_idx = 0]
            /\ message' = "conversation_ended"
            /\ ret' = TRUE
       ELSE /\ ret' = FALSE
            /\ UNCHANGED <<convVars, message>>
    /\ UNCHANGED <<restVars, floorVars, playerVars, active_terminal,
                   statVars, scoreVars, questVars>>

exit_conversation ==
    /\ IF active_conversation # NONE
       THEN /\ active_conversation' = NONE
            /\ message' = "conversation_ended"
            /\ ret' = TRUE
       ELSE /\ ret' = FALSE
            /\ UNCHANGED <<active_conversation, message>>
    /\ UNCHANGED <<restVars, floorVars, playerVars, npc_conversations, active_terminal,
                   statVars, scoreVars, questVars>>


(***************************************************************************)
(* Game.update_npc_wandering: one wander tick.  The NPCs of the floor are  *)
(* updated in list order, each seeing the moves of the ones before it.     *)
(* draws[i] holds what the random generator and should_return_home give    *)
(* for the i-th NPC: the two state durations, the coin of the way home,    *)
(* the random step, and far, the answer of Entity.should_return_home       *)
(* (either answer is explored).                                            *)
(***************************************************************************)
Sign(a) == IF a > 0 THEN 1 ELSE IF a < 0 THEN -1 ELSE 0

\* the loop body without the test for another NPC on the new cell
WanderStep_crowding(list, old, i, d) ==
    LET npc == list[i]
        cooldown == IF npc.move_cooldown > 0 THEN npc.move_cooldown - 1
                    ELSE npc.move_cooldown
        remaining == npc.wander_ticks_remaining - 1
        switch == remaining <= 0
        state == IF ~switch THEN npc.wander_state
                 ELSE IF npc.wander_state = "idle" THEN "wander" ELSE "idle"
        timer == IF ~switch THEN remaining
                 ELSE IF npc.wander_state = "idle" THEN d.wander_ticks ELSE d.idle_ticks
        moves == state = "wander" /\ cooldown <= 0
        hx == Sign(npc.home_x - npc.x)
        hy == Sign(npc.home_y - npc.y)
        dx == IF ~d.far THEN d.dx
              ELSE IF d.coin /\ hx # 0 THEN hx
              ELSE IF hy # 0 THEN 0 ELSE hx
        dy == IF ~d.far THEN d.dy
              ELSE IF d.coin /\ hx # 0 THEN 0 ELSE hy
        new_x == npc.x + dx
        new_y == npc.y + dy
        moved == /\ moves
                 /\ is_walkable(new_x, new_y)
                 /\ ~(new_x = player.x /\ new_y = player.y)
        after == [npc EXCEPT !.move_cooldown =
                                 IF moves THEN NPC_MOVEMENT_SPEEDS(npc.npc_type)
                                 ELSE cooldown,
                             !.wander_state = state,
                             !.wander_ticks_remaining = timer,
                             !.x = IF moved THEN new_x ELSE @,
                             !.y = IF moved THEN new_y ELSE @]
    IN  [npcs |-> [list EXCEPT ![i] = after],
         old |-> IF moved
                 THEN [n \in DOMAIN old \cup {npc.name} |->
                          IF n = npc.name THEN <<npc.x, npc.y>> ELSE old[n]]
                 ELSE old]

WanderStep(list, old, i, d) ==
    LET npc == list[i]
        cooldown == IF npc.move_cooldown > 0 THEN npc.move_cooldown - 1
                    ELSE npc.move_cooldown
        remaining == npc.wander_ticks_remaining - 1
        switch == remaining <= 0
        state == IF ~switch THEN npc.wander_state
                 ELSE IF npc.wander_state = "idle" THEN "wander" ELSE "idle"
        timer == IF ~switch THEN remaining
                 ELSE IF npc.wander_state = "idle" THEN d.wander_ticks ELSE d.idle_ticks
        moves == state = "wander" /\ cooldown <= 0
        hx == Sign(npc.home_x - npc.x)
        hy == Sign(npc.home_y - npc.y)
        dx == IF ~d.far THEN d.dx
              ELSE IF d.coin /\ hx # 0 THEN hx
              ELSE IF hy # 0 THEN 0 ELSE hx
        dy == IF ~d.far THEN d.dy
              ELSE IF d.coin /\ hx # 0 THEN 0 ELSE hy
        new_x == npc.x + dx
        new_y == npc.y + dy
        occupied == \E j \in 1..Len(list) :
                        j # i /\ list[j].x = new_x /\ list[j].y = new_y
        moved == /\ moves
                 /\ is_walkable(new_x, new_y)
                 /\ ~(new_x = player.x /\ new_y = player.y)
                 /\ ~occupied
        after == [npc EXCEPT !.move_cooldown =
                                 IF moves THEN NPC_MOVEMENT_SPEEDS(npc.npc_type)
                                 ELSE cooldown,
                             !.wander_state = state,
                             !.wander_ticks_remaining = timer,
                             !.x = IF moved THEN new_x ELSE @,
                             !.y = IF moved THEN new_y ELSE @]
    IN  [npcs |-> [list EXCEPT ![i] = after],
         old |-> IF moved
                 THEN [n \in DOMAIN old \cup {npc.name} |->
                          IF n = npc.name THEN <<npc.x, npc.y>> ELSE old[n]]
                 ELSE old]

RECURSIVE WanderAll(_, _, _, _)
WanderAll(list, old, i, draws) ==
    IF i > Len(list) THEN [npcs |-> list, old |-> old]
    ELSE LET done == WanderStep(list, old, i, draws[i])
         IN  WanderAll(done.npcs, done.old, i + 1, draws)

\* update_npc_wandering that keeps the NPCs moving during a conversation
update_npc_wandering_talking(draws) ==
    /\ IF ~NPC_WANDER_ENABLED
       THEN UNCHANGED <<npcs, old_npc_positions>>
       ELSE /\ npcs' = WanderAll(npcs, old_npc_positions, 1, draws).npcs
            /\ old_npc_positions' = WanderAll(npcs, old_npc_positions, 1, draws).old
    /\ UNCHANGED <<npc_data, gates, random_npcs, opened, current_floor, game_map, stairs,
                   terminals, all_npcs,
                   playerVars, convVars, active_terminal, statVars, scoreVars,
                   questVars, message, ret>>

update_npc_wandering(draws) ==
    /\ IF ~NPC_WANDER_ENABLED \/ active_conversation # NONE
       THEN UNCHANGED <<npcs, old_npc_positions>>
       ELSE /\ npcs' = WanderAll(npcs, old_npc_positions, 1, draws).npcs
            /\ old_npc_positions' = WanderAll(npcs, old_npc_positions, 1, draws).old
    /\ UNCHANGED <<npc_data, gates, random_npcs, opened, current_floor, game_map, stairs,
                   terminals, all_npcs,
                   playerVars, convVars, active_terminal, statVars, scoreVars,
                   questVars, message, ret>>


(***************************************************************************)
(* Game.process_command.  A command is a sequence of characters;           *)
(* str.strip and str.lower are modelled on the ASCII characters.           *)
(***************************************************************************)
whitespace == {" ", "\t", "\n", "\r", "\f"}

RECURSIVE lstrip(_)
lstrip(str) ==
    IF str # <<>> /\ Head(str) \in whitespace THEN lstrip(Tail(str)) ELSE str

RECURSIVE rstrip(_)
rstrip(str) ==
    IF str # <<>> /\ str[Len(str)] \in whitespace
    THEN rstrip(SubSeq(str, 1, Len(str) - 1))
    ELSE str

strip(str) == rstrip(lstrip(str))

uppercase == <<"A", "B", "C", "D", "E", "F", "G", "H", "I", "J", "K", "L", "M",
               "N", "O", "P", "Q", "R", "S", "T", "U", "V", "W", "X", "Y", "Z">>
lowercase == <<"a", "b", "c", "d", "e", "f", "g", "h", "i", "j", "k", "l", "m",
               "n", "o", "p", "q", "r", "s", "t", "u", "v", "w", "x", "y", "z">>

lower(str) ==
    [k \in 1..Len(str) |->
        IF \E j \in 1..Len(uppercase) : uppercase[j] = str[k]
        THEN lowercase[CHOOSE j \in 1..Len(uppercase) : uppercase[j] = str[k]]
        ELSE str[k]]

\* int() of a command that is one of the digits 1 to 4
int(str) == CASE str = <<"1">> -> 1 [] str = <<"2">> -> 2 [] str = <<"3">> -> 3
              [] str = <<"4">> -> 4

\* the text process_command returns: a text, or a text followed by a command
Info(text, command) == [text |-> text, command |-> command]

\* the text a movement command returns
Moved(text) == Info(IF message' = "" THEN text ELSE message', <<>>)

Unknown(cmd) ==
    /\ ret_info' = Info("Unknown command: ", cmd)
    /\ ret' = FALSE
    /\ UNCHANGED <<restVars, floorVars, playerVars, convVars, active_terminal,
                   statVars, scoreVars, questVars, message>>

\* process_command matching the command as it was typed
process_command_verbatim(command) ==
    LET cmd == command IN
    IF active_conversation # NONE /\ cmd \in {<<"1">>, <<"2">>, <<"3">>, <<"4">>}
    THEN answer_question(int(cmd) - 1) /\ ret_info' = Info("response", <<>>)
    ELSE IF cmd \in {<<"u", "p">>, <<"w">>}
    THEN move_player(0, -1) /\ ret_info' = Moved("moved up")
    ELSE IF cmd \in {<<"d", "o", "w", "n">>, <<"s">>}
    THEN move_player(0, 1) /\ ret_info' = Moved("moved down")
    ELSE IF cmd \in {<<"l", "e", "f", "t">>, <<"a">>}
    THEN move_player(-1, 0) /\ ret_info' = Moved("moved left")
    ELSE IF cmd \in {<<"r", "i", "g", "h", "t">>, <<"d">>}
    THEN move_player(1, 0) /\ ret_info' = Moved("moved right")
    ELSE IF cmd \in {<<"i", "n", "t", "e", "r", "a", "c", "t">>, <<"i">>}
    THEN interact /\ ret_info' = Info(message', <<>>)
    ELSE IF cmd \in {<<"s", "t", "a", "i", "r", "s">>, <<"u", "s", "e">>, <<">">>, <<"<">>}
    THEN use_stairs /\ ret_info' = Info(message', <<>>)
    ELSE IF cmd \in {<<"e", "x", "i", "t">>, <<"e", "s", "c">>}
    THEN exit_conversation /\ ret_info' = Info(message', <<>>)
    ELSE Unknown(cmd)

process_command(command) ==
    LET cmd == lower(strip(command)) IN
    IF active_conversation # NONE /\ cmd \in {<<"1">>, <<"2">>, <<"3">>, <<"4">>}
    THEN answer_question(int(cmd) - 1) /\ ret_info' = Info("response", <<>>)
    ELSE IF cmd \in {<<"u", "p">>, <<"w">>}
    THEN move_player(0, -1) /\ ret_info' = Moved("moved up")
    ELSE IF cmd \in {<<"d", "o", "w", "n">>, <<"s">>}
    THEN move_player(0, 1) /\ ret_info' = Moved("moved down")
    ELSE IF cmd \in {<<"l", "e", "f", "t">>, <<"a">>}
    THEN move_player(-1, 0) /\ ret_info' = Moved("moved left")
    ELSE IF cmd \in {<<"r", "i", "g", "h", "t">>, <<"d">>}
    THEN move_player(1, 0) /\ ret_info' = Moved("moved right")
    ELSE IF cmd \in {<<"i", "n", "t", "e", "r", "a", "c", "t">>, <<"i">>}
    THEN interact /\ ret_info' = Info(message', <<>>)
    ELSE IF cmd \in {<<"s", "t", "a", "i", "r", "s">>, <<"u", "s", "e">>, <<">">>, <<"<">>}
    THEN use_stairs /\ ret_info' = Info(message', <<>>)
    ELSE IF cmd \in {<<"e", "x", "i", "t">>, <<"e", "s", "c">>}
    THEN exit_conversation /\ ret_info' = Info(message', <<>>)
    ELSE Unknown(cmd)


(***************************************************************************)
(* __main__.main: a key pressed while a terminal is shown closes it.       *)
(***************************************************************************)
close_terminal ==
    /\ active_terminal' = NONE
    /\ UNCHANGED <<restVars, floorVars, playerVars, convVars, statVars, scoreVars,
                   questVars, message, ret>>


(***************************************************************************)
(* The environment: the caller of the command API.                         *)
(*                                                                         *)
(* The player is steered along a tour of the map: from the start cell      *)
(* along rows 5 and 4 and column 36 to the DOWN stairs, with a branch to   *)
(* the first terminal and one to the fixed position of every NPC of the    *)
(* current floor; a move is also attempted against every wall the tour     *)
(* touches.  The other commands are issued at the stops of the tour: at    *)
(* the start cell and wherever an entity is in reach.  A terminal that is  *)
(* shown is closed before the next command.  Wrong answers are given in    *)
(* the game on the two-layer content, at most MaxWrong of them, and in the *)
(* game on the quest content, where the player fails the first quest       *)
(* target at most MaxQuestWrong times before the first correct answer.     *)
(***************************************************************************)
MaxWrong == 2
MaxQuestWrong == 3
MaxTicks == 2

HLine(y, x1, x2) == {<<x, y>> : x \in x1..x2}
VLine(x, y1, y2) == {<<x, y>> : y \in y1..y2}

Trunk ==
    HLine(5, 5, 14) \cup HLine(4, 14, 36) \cup VLine(36, 5, 19) \cup HLine(19, 37, 45)
    \cup {<<STAIRS_DOWN_DEFAULT_X, STAIRS_DOWN_DEFAULT_Y>>} \cup VLine(7, 6, 7)

\* the branch from the trunk to the i-th fixed NPC position
Branch(i) ==
    CASE i = 1 -> VLine(14, 6, 7)
      [] i = 3 -> HLine(12, 26, 35)
      [] i = 4 -> HLine(15, 37, 39)
      [] i = 5 -> VLine(7, 8, 17) \cup HLine(17, 8, 9)
      [] OTHER -> {}

\* the cells next to the start that the game with random placement is walked on
NearArea == HLine(5, 5, 14) \cup VLine(14, 6, 7) \cup VLine(7, 6, 7)

\* the way on to the cell (25, 12) of layer 1, walked in the game whose
\* stairs lie there
FarPath == HLine(4, 14, 16) \cup VLine(16, 5, 12) \cup HLine(12, 17, 25)

WalkArea ==
    IF random_npcs
    THEN IF npc_data = ContentS THEN NearArea \cup FarPath ELSE NearArea
    ELSE Trunk \cup UNION {Branch(i) : i \in 1..Len(npcs)}

AtStop ==
    /\ active_terminal = NONE
    /\ \/ candidates # <<>>
       \/ player = [x |-> PLAYER_START_X, y |-> PLAYER_START_Y]

Directions == {<<0, -1>>, <<0, 1>>, <<-1, 0>>, <<1, 0>>}

AnswerIndices == -1..2

\* the answer the index selects is a wrong answer of the current question
SelectsWrong(answer_index) ==
    /\ active_conversation # NONE
    /\ LET conv == npc_conversations[active_conversation] IN
       /\ conv.current_question_idx < Len(conv.questions)
       /\ LET question == conv.questions[conv.current_question_idx + 1] IN
          /\ answer_index \in 0..(Len(question) - 1)
          /\ ~question[answer_index + 1].correct

\* the outcomes of the random generator that a wander tick may draw
\* (the coin is tossed only on the way home, the step drawn only otherwise)
Draws ==
    [wander_ticks : {NPC_WANDER_TICKS_MIN, NPC_WANDER_TICKS_MAX},
     idle_ticks : {NPC_IDLE_TICKS_MIN, NPC_IDLE_TICKS_MAX},
     far : {FALSE}, coin : {FALSE}, dx : {-1, 0, 1}, dy : {-1, 0, 1}]
    \cup
    [wander_ticks : {NPC_WANDER_TICKS_MIN, NPC_WANDER_TICKS_MAX},
     idle_ticks : {NPC_IDLE_TICKS_MIN, NPC_IDLE_TICKS_MAX},
     far : {TRUE}, coin : BOOLEAN, dx : {0}, dy : {0}]

MoveCmd ==
    /\ active_terminal = NONE
    /\ \E d \in Directions :
           /\ \/ <<player.x + d[1], player.y + d[2]>> \in WalkArea
              \/ ~is_walkable(player.x + d[1], player.y + d[2])
              \/ active_conversation # NONE
           /\ move_player(d[1], d[2])
    /\ UNCHANGED <<frames, ret_info, line, build, games, placing>> /\ Tracked

InteractCmd == AtStop /\ interact /\ UNCHANGED <<frames, ret_info, line, build, games, placing>> /\ Tracked

UseStairsCmd == AtStop /\ use_stairs /\ UNCHANGED <<frames, ret_info, line, build, games, placing>> /\ Tracked

AnswerCmd ==
    /\ \E answer_index \in AnswerIndices :
           /\ AtStop
           /\ SelectsWrong(answer_index) =>
                  \/ npc_data = ContentA /\ questions_wrong < MaxWrong
                  \/ /\ npc_data = ContentQ
                     /\ active_conversation = "ALGO_SPIRIT"
                     /\ questions_correct = 0
                     /\ questions_wrong < MaxQuestWrong
           /\ answer_question(answer_index)
    /\ UNCHANGED <<frames, ret_info, line, build, games, placing>> /\ Tracked

ExitCmd == AtStop /\ exit_conversation /\ UNCHANGED <<frames, ret_info, line, build, games, placing>> /\ Tracked

CloseCmd == active_terminal # NONE /\ close_terminal /\ UNCHANGED <<frames, ret_info, line, build, games, placing>> /\ Tracked

TickCmd ==
    /\ frames > 0
    /\ frames' = frames - 1
    /\ UNCHANGED <<ret_info, line, build, games, placing>>
    /\ \E draws \in [1..Len(npcs) -> Draws] : update_npc_wandering(draws)
    /\ Tracked

(***************************************************************************)
(* Spec: four games driven by the commands and the frame loop.             *)
(*   - the two-layer content, with wrong answers;                          *)
(*   - the quest content (the answers shuffled the other way);             *)
(*   - the three-layer content;                                            *)
(*   - the single-enemy content, in which the frame loop issues MaxTicks   *)
(*     wander ticks between the commands.                                  *)
(***************************************************************************)
Init ==
    \/ GameInit(ContentA, "keep") /\ frames = 0 /\ ret_info = Info(NONE, <<>>) /\ line = <<>> /\ build = NoBuild /\ games = NoGames /\ placing = NoPlacing /\ trip = FirstTrip
    \/ GameInit(ContentQ, "reverse") /\ frames = 0 /\ ret_info = Info(NONE, <<>>) /\ line = <<>> /\ build = NoBuild /\ games = NoGames /\ placing = NoPlacing /\ trip = FirstTrip
    \/ GameInit(ContentD, "reverse") /\ frames = 0 /\ ret_info = Info(NONE, <<>>) /\ line = <<>> /\ build = NoBuild /\ games = NoGames /\ placing = NoPlacing /\ trip = FirstTrip
    \/ GameInit(ContentW, "keep") /\ frames = MaxTicks /\ ret_info = Info(NONE, <<>>) /\ line = <<>> /\ build = NoBuild /\ games = NoGames /\ placing = NoPlacing /\ trip = FirstTrip

Next ==
    \/ MoveCmd \/ InteractCmd \/ UseStairsCmd \/ AnswerCmd \/ ExitCmd \/ CloseCmd
    \/ TickCmd

Spec == Init /\ [][Next]_vars


(***************************************************************************)
(* SpecWander: games with random placement (the constructor's default),    *)
(* each started from a layout that the placement loops accept, with the    *)
(* terminals on the cells of their definitions.                            *)
(*   - The enemy and the specialist of layer 1 stand next to each other or *)
(*     on one cell, the stairs on the default cell; the frame loop issues  *)
(*     WanderTicks wander ticks between the commands, and the player is    *)
(*     walked near the start.                                              *)
(*   - The three required NPCs of layer 1 stand near the start, the stairs *)
(*     down at (25, 12) and the enemy on the stairs or beside them; the    *)
(*     player is walked from the start to the stairs.                      *)
(***************************************************************************)
WanderTicks == 1

WanderHome == <<14, 8>>
WanderCells == {<<13, 8>>, WanderHome}

RandomGameInit(data, shuffle, cells, down) ==
    /\ npc_data = data
    /\ old_npc_positions = [n \in {} |-> <<0, 0>>]
    /\ gates = <<>>
    /\ random_npcs = TRUE
    /\ opened = {}
    /\ current_floor = 1
    /\ game_map = 1
    /\ player = [x |-> PLAYER_START_X, y |-> PLAYER_START_Y]
    /\ old_player_pos = NONE
    /\ active_conversation = NONE
    /\ active_terminal = NONE
    /\ npc_conversations =
         [n \in Names(data) |->
            LET info == CHOOSE d \in {data[i] : i \in 1..Len(data)} : d.name = n
            IN  create_randomized_conversation(info, shuffle)]
    /\ coherence = STARTING_COHERENCE
    /\ knowledge_modules = {}
    /\ questions_answered = 0
    /\ questions_correct = 0
    /\ questions_wrong = 0
    /\ npcs_completed = {}
    /\ game_won = FALSE
    /\ npc_opinions = [n \in {} |-> 0]
    /\ quest_active = FALSE
    /\ quest_completed_npcs = {}
    /\ message = "welcome"
    /\ ret = NONE
    /\ LET start == [x |-> PLAYER_START_X, y |-> PLAYER_START_Y]
       IN  /\ Len(cells) = Len(SelectSeq(data, LAMBDA info : IsOnFloor(1, info)))
           /\ CellsAccepted(1, start, cells)
           /\ accepted_down(1, start, down[1], down[2])
           /\ npcs = random_npcs_at(data, 1, start, cells)
           /\ all_npcs = ExtendAllNpcs(<<>>, random_npcs_at(data, 1, start, cells))
    /\ terminals = _generate_terminals(1)
    /\ stairs = random_stairs_at(1, down, down)

InitWander ==
    /\ \/ /\ \E b \in WanderCells :
                RandomGameInit(ContentV, "keep", <<WanderHome, b>>,
                               <<STAIRS_DOWN_DEFAULT_X, STAIRS_DOWN_DEFAULT_Y>>)
          /\ frames = WanderTicks
       \/ /\ \E v \in {<<25, 12>>, <<26, 13>>} :
                RandomGameInit(ContentS, "keep", <<<<11, 6>>, <<13, 8>>, <<17, 6>>, v>>,
                               <<25, 12>>)
          /\ frames = 0
    /\ ret_info = Info(NONE, <<>>) /\ line = <<>>
    /\ build = NoBuild /\ games = NoGames /\ placing = NoPlacing /\ trip = FirstTrip

\* the outcomes a wander tick draws here: the shortest durations and any
\* step (an NPC within its radius does not head home)
NearDraws ==
    [wander_ticks : {NPC_WANDER_TICKS_MIN}, idle_ticks : {NPC_IDLE_TICKS_MIN},
     far : {FALSE}, coin : {FALSE}, dx : {-1, 0, 1}, dy : {-1, 0, 1}]

WanderTickCmd ==
    /\ frames > 0
    /\ frames' = frames - 1
    /\ UNCHANGED <<ret_info, line, build, games, placing>>
    /\ \E draws \in [1..Len(npcs) -> NearDraws] : update_npc_wandering(draws)
    /\ Tracked

NextWander ==
    \/ MoveCmd \/ InteractCmd \/ UseStairsCmd \/ AnswerCmd \/ ExitCmd \/ CloseCmd
    \/ WanderTickCmd

SpecWander == InitWander /\ [][NextWander]_vars


(***************************************************************************)
(* SpecCmd: the test mode of __main__ (run_test_mode), which builds the    *)
(* game with fixed placement and hands every line of its input to          *)
(* process_command.  A line is a command word as it stands or in capitals  *)
(* between blanks; test mode never closes a terminal.                      *)
(***************************************************************************)
Words ==
    {<<"u", "p">>, <<"w">>, <<"d", "o", "w", "n">>, <<"s">>, <<"l", "e", "f", "t">>, <<"a">>,
     <<"r", "i", "g", "h", "t">>, <<"d">>, <<"i", "n", "t", "e", "r", "a", "c", "t">>, <<"i">>,
     <<"s", "t", "a", "i", "r", "s">>, <<"u", "s", "e">>, <<">">>, <<"<">>,
     <<"e", "x", "i", "t">>, <<"e", "s", "c">>, <<"1">>, <<"2">>, <<"3">>, <<"4">>,
     <<"q">>, <<"5">>, <<"u", " ", "p">>, <<"0">>}

upper(str) ==
    [k \in 1..Len(str) |->
        IF \E j \in 1..Len(lowercase) : lowercase[j] = str[k]
        THEN uppercase[CHOOSE j \in 1..Len(lowercase) : lowercase[j] = str[k]]
        ELSE str[k]]

Spellings(word) == {word, <<" ", "\t">> \o upper(word) \o <<"\n">>}

\* the step a move command asks for
StepOf(word) ==
    CASE word \in {<<"u", "p">>, <<"w">>} -> <<0, -1>>
      [] word \in {<<"d", "o", "w", "n">>, <<"s">>} -> <<0, 1>>
      [] word \in {<<"l", "e", "f", "t">>, <<"a">>} -> <<-1, 0>>
      [] word \in {<<"r", "i", "g", "h", "t">>, <<"d">>} -> <<1, 0>>
      [] OTHER -> <<0, 0>>

\* the cells the test input walks: from the start to the first terminal and
\* to the first NPC
CmdWalkArea == HLine(5, 5, 14) \cup VLine(14, 6, 7) \cup VLine(7, 6, 7)

CmdAtStop ==
    \/ candidates # <<>>
    \/ player = [x |-> PLAYER_START_X, y |-> PLAYER_START_Y]

\* the lines the test input holds in the current state
Offered(word) ==
    LET d == StepOf(word) IN
    IF d # <<0, 0>>
    THEN \/ <<player.x + d[1], player.y + d[2]>> \in CmdWalkArea
         \/ ~is_walkable(player.x + d[1], player.y + d[2])
         \/ active_conversation # NONE
    ELSE /\ CmdAtStop
         /\ (word \in {<<"1">>, <<"2">>, <<"3">>, <<"4">>} /\ SelectsWrong(int(word) - 1))
                => questions_wrong < MaxWrong

ProcessCmd ==
    /\ \E word \in Words : \E command \in Spellings(word) :
           Offered(word) /\ line' = command /\ process_command(command)
    /\ UNCHANGED <<frames, build, games, placing>> /\ Tracked

InitCmd == GameInit(ContentA, "keep") /\ frames = 0 /\ ret_info = Info(NONE, <<>>) /\ line = <<>> /\ build = NoBuild /\ games = NoGames /\ placing = NoPlacing /\ trip = FirstTrip

SpecCmd == InitCmd /\ [][ProcessCmd]_vars


(***************************************************************************)
(* backup_neural_dive.py: the single-file variant of the game, which       *)
(* places knowledge gates on the map.  Its names that the modular game     *)
(* also uses carry the prefix backup_ here.                                *)
(*                                                                         *)
(* Content: the question table and the conversations of the NPCs, every    *)
(* question with its four answers.                                         *)
(***************************************************************************)
backup_Answer(correct, reward_knowledge) ==
    [correct |-> correct, reward_knowledge |-> reward_knowledge, enemy_penalty |-> 35]

CS_QUESTIONS(key) ==
    CASE key = "big_o" ->
           <<backup_Answer(FALSE, NONE), backup_Answer(TRUE, "binary_search"),
             backup_Answer(FALSE, NONE), backup_Answer(FALSE, NONE)>>
      [] key = "hash_table" ->
           <<backup_Answer(FALSE, NONE), backup_Answer(FALSE, NONE),
             backup_Answer(TRUE, "hashing"), backup_Answer(FALSE, NONE)>>
      [] key = "tree_height" ->
           <<backup_Answer(FALSE, NONE), backup_Answer(TRUE, "trees"),
             backup_Answer(FALSE, NONE), backup_Answer(FALSE, NONE)>>
      [] key = "deadlock" ->
           <<backup_Answer(FALSE, NONE), backup_Answer(FALSE, NONE),
             backup_Answer(TRUE, "concurrency"), backup_Answer(FALSE, NONE)>>
      [] key = "cache" ->
           <<backup_Answer(FALSE, NONE), backup_Answer(FALSE, NONE),
             backup_Answer(TRUE, "caching"), backup_Answer(FALSE, NONE)>>
      [] key = "tcp_handshake" ->
           <<backup_Answer(FALSE, NONE), backup_Answer(TRUE, "networking"),
             backup_Answer(FALSE, NONE), backup_Answer(FALSE, NONE)>>
      [] key = "compiler_phases" ->
           <<backup_Answer(FALSE, NONE), backup_Answer(FALSE, NONE),
             backup_Answer(TRUE, "compilers"), backup_Answer(FALSE, NONE)>>
      [] key = "acid" ->
           <<backup_Answer(FALSE, NONE), backup_Answer(TRUE, "databases"),
             backup_Answer(FALSE, NONE), backup_Answer(FALSE, NONE)>>
      [] key = "p_vs_np" ->
           <<[backup_Answer(FALSE, NONE) EXCEPT !.enemy_penalty = 45],
             [backup_Answer(TRUE, "complexity_theory") EXCEPT !.enemy_penalty = 45],
             [backup_Answer(FALSE, NONE) EXCEPT !.enemy_penalty = 45],
             [backup_Answer(FALSE, NONE) EXCEPT !.enemy_penalty = 45]>>
      [] key = "dp_memoization" ->
           <<backup_Answer(FALSE, NONE), backup_Answer(TRUE, "dynamic_programming"),
             backup_Answer(FALSE, NONE), backup_Answer(FALSE, NONE)>>
      [] key = "heap_operations" ->
           <<backup_Answer(FALSE, NONE), backup_Answer(TRUE, "heaps"),
             backup_Answer(FALSE, NONE), backup_Answer(FALSE, NONE)>>
      [] key = "quicksort" ->
           <<backup_Answer(FALSE, NONE), backup_Answer(TRUE, "sorting"),
             backup_Answer(FALSE, NONE), backup_Answer(FALSE, NONE)>>
      [] key = "avl_rotation" ->
           <<backup_Answer(TRUE, "balanced_trees"), backup_Answer(FALSE, NONE),
             backup_Answer(FALSE, NONE), backup_Answer(FALSE, NONE)>>
      [] key = "http_methods" ->
           <<backup_Answer(FALSE, NONE), backup_Answer(TRUE, "http"),
             backup_Answer(FALSE, NONE), backup_Answer(FALSE, NONE)>>
      [] key = "encryption_types" ->
           <<backup_Answer(FALSE, NONE), backup_Answer(FALSE, NONE),
             backup_Answer(TRUE, "cryptography"), backup_Answer(FALSE, NONE)>>
      [] key = "password_hashing" ->
           <<backup_Answer(FALSE, NONE), backup_Answer(TRUE, "password_security"),
             backup_Answer(FALSE, NONE), backup_Answer(FALSE, NONE)>>
      [] key = "ipc_methods" ->
           <<backup_Answer(FALSE, NONE), backup_Answer(FALSE, NONE),
             backup_Answer(TRUE, "ipc"), backup_Answer(FALSE, NONE)>>
      [] key = "inodes" ->
           <<backup_Answer(FALSE, NONE), backup_Answer(TRUE, "filesystems"),
             backup_Answer(FALSE, NONE), backup_Answer(FALSE, NONE)>>
      [] key = "message_queues" ->
           <<backup_Answer(FALSE, NONE), backup_Answer(TRUE, "message_queues"),
             backup_Answer(FALSE, NONE), backup_Answer(FALSE, NONE)>>
      [] key = "cap_theorem" ->
           <<backup_Answer(FALSE, NONE), backup_Answer(TRUE, "distributed_systems"),
             backup_Answer(FALSE, NONE), backup_Answer(FALSE, NONE)>>
      [] key = "cpu_pipelining" ->
           <<backup_Answer(FALSE, NONE), backup_Answer(TRUE, "cpu_architecture"),
             backup_Answer(FALSE, NONE), backup_Answer(FALSE, NONE)>>
      [] key = "gpu_vs_cpu" ->
           <<backup_Answer(FALSE, NONE), backup_Answer(TRUE, "gpu_computing"),
             backup_Answer(FALSE, NONE), backup_Answer(FALSE, NONE)>>
      [] key = "halting_problem" ->
           <<backup_Answer(FALSE, NONE), backup_Answer(TRUE, "computability_theory"),
             backup_Answer(FALSE, NONE), backup_Answer(FALSE, NONE)>>
      [] key = "backpropagation" ->
           <<backup_Answer(FALSE, NONE), backup_Answer(TRUE, "neural_networks"),
             backup_Answer(FALSE, NONE), backup_Answer(FALSE, NONE)>>
      [] key = "overfitting" ->
           <<backup_Answer(FALSE, NONE), backup_Answer(TRUE, "machine_learning"),
             backup_Answer(FALSE, NONE), backup_Answer(FALSE, NONE)>>
      [] key = "tls_handshake" ->
           <<backup_Answer(FALSE, NONE), backup_Answer(TRUE, "tls_ssl"),
             backup_Answer(FALSE, NONE), backup_Answer(FALSE, NONE)>>
      [] key = "dns_resolution" ->
           <<backup_Answer(FALSE, NONE), backup_Answer(TRUE, "dns"),
             backup_Answer(FALSE, NONE), backup_Answer(FALSE, NONE)>>

Keyed(npc_name, keys, npc_type) ==
    Conversation(npc_name, [i \in 1..Len(keys) |-> CS_QUESTIONS(keys[i])], npc_type)

NPC_CONVERSATIONS ==
    [n \in {"ALGO_SPIRIT", "NET_DAEMON", "COMPILER_SAGE", "DB_GUARDIAN", "MEMORY_HEALER", "VIRUS_HUNTER",
             "ORACLE", "HEAP_MASTER", "DP_SAGE", "WEB_ARCHITECT", "CRYPTO_GUARDIAN",
             "SYSTEM_CORE", "CLOUD_MIND", "SILICON_SAGE", "THEORY_ORACLE", "AI_CONSCIOUSNESS"} |->
       CASE n = "ALGO_SPIRIT" ->
              Keyed(n, <<"big_o", "hash_table">>, "specialist")
         [] n = "NET_DAEMON" ->
              Keyed(n, <<"tcp_handshake">>, "specialist")
         [] n = "COMPILER_SAGE" ->
              Keyed(n, <<"compiler_phases">>, "specialist")
         [] n = "DB_GUARDIAN" ->
              Keyed(n, <<"acid">>, "specialist")
         [] n = "MEMORY_HEALER" ->
              Keyed(n, <<>>, "helper")
         [] n = "VIRUS_HUNTER" ->
              Keyed(n, <<"p_vs_np">>, "enemy")
         [] n = "ORACLE" ->
              Keyed(n, <<>>, "quest")
         [] n = "HEAP_MASTER" ->
              Keyed(n, <<"heap_operations", "avl_rotation">>, "specialist")
         [] n = "DP_SAGE" ->
              Keyed(n, <<"dp_memoization", "quicksort">>, "specialist")
         [] n = "WEB_ARCHITECT" ->
              Keyed(n, <<"http_methods", "dns_resolution">>, "specialist")
         [] n = "CRYPTO_GUARDIAN" ->
              Keyed(n, <<"encryption_types", "password_hashing", "tls_handshake">>, "specialist")
         [] n = "SYSTEM_CORE" ->
              Keyed(n, <<"ipc_methods", "inodes">>, "specialist")
         [] n = "CLOUD_MIND" ->
              Keyed(n, <<"message_queues", "cap_theorem">>, "specialist")
         [] n = "SILICON_SAGE" ->
              Keyed(n, <<"cpu_pipelining", "gpu_vs_cpu">>, "specialist")
         [] n = "THEORY_ORACLE" ->
              Keyed(n, <<"halting_problem">>, "specialist")
         [] n = "AI_CONSCIOUSNESS" ->
              Keyed(n, <<"backpropagation", "overfitting">>, "specialist")]

\* the NPC definitions, in definition order
all_npc_defs ==
    << [name |-> "ORACLE", floor |-> 1], [name |-> "MEMORY_HEALER", floor |-> 1],
       [name |-> "ALGO_SPIRIT", floor |-> 1], [name |-> "HEAP_MASTER", floor |-> 1],
       [name |-> "DP_SAGE", floor |-> 1], [name |-> "NET_DAEMON", floor |-> 2],
       [name |-> "WEB_ARCHITECT", floor |-> 2], [name |-> "CRYPTO_GUARDIAN", floor |-> 2],
       [name |-> "SYSTEM_CORE", floor |-> 2], [name |-> "COMPILER_SAGE", floor |-> 2],
       [name |-> "DB_GUARDIAN", floor |-> 3], [name |-> "CLOUD_MIND", floor |-> 3],
       [name |-> "SILICON_SAGE", floor |-> 3], [name |-> "THEORY_ORACLE", floor |-> 3],
       [name |-> "AI_CONSCIOUSNESS", floor |-> 3], [name |-> "VIRUS_HUNTER", floor |-> 3] >>

backup_Entity(x, y, name) == [name |-> name, x |-> x, y |-> y]

Gate(x, y, required_knowledge) ==
    [x |-> x, y |-> y, required_knowledge |-> required_knowledge, unlocked |-> FALSE]

create_simple_map(width, height, floor, x, y) ==
    IF \/ y = 0 \/ y = height - 1 \/ x = 0 \/ x = width - 1
       \/ _draw_floor_walls(width, height, floor, x, y)
    THEN "#"
    ELSE "."

(***************************************************************************)
(* Game._generate_floor of the variant.  With random_npcs the cells come   *)
(* from the random generator: draws holds, per list, the cell of the       *)
(* attempt that the loop accepts (accepted_draws states the ranges and the *)
(* tests of the loops; a loop that runs out of attempts is left out).      *)
(* With fixed placement draws is not read.                                 *)
(***************************************************************************)
gate_defs(floor) ==
    CASE floor = 1 -> << <<"binary_search", 35, 12>> >>
      [] floor = 2 -> << <<"hashing", 20, 10>>, <<"trees", 35, 15>> >>
      [] OTHER -> <<>>

floor_npcs(floor) ==
    LET onFloor(d) == d.floor = floor IN SelectSeq(all_npc_defs, onFloor)

TERMINAL_DATA == {"big_o_hint", "data_structures", "tcp_hint", "concurrency_hint",
                  "lore_layer1", "lore_layer2"}

backup_terminal_defs(floor) ==
    CASE floor = 1 -> << <<"big_o_hint", 8, 8>>, <<"lore_layer1", 12, 10>> >>
      [] floor = 2 -> << <<"data_structures", 8, 8>>, <<"tcp_hint", 12, 10>>,
                         <<"lore_layer2", 8, 12>> >>
      [] floor = 3 -> << <<"concurrency_hint", 8, 8>> >>
      [] OTHER -> <<>>

floor_terminals(floor) ==
    LET known(def) == def[1] \in TERMINAL_DATA
    IN  SelectSeq(backup_terminal_defs(floor), known)

accepted_draws(floor, px, py, draws) ==
    LET open(c) == create_simple_map(50, 25, floor, c[1], c[2]) # "#"
        tdefs == floor_terminals(floor)
        gdefs == gate_defs(floor)
    IN
    /\ DOMAIN draws.npcs = 1..Len(floor_npcs(floor))
    /\ \A i \in DOMAIN draws.npcs :
           LET c == draws.npcs[i] IN
           /\ c[1] \in 10..(50 - 2) /\ c[2] \in 5..(25 - 2)
           /\ open(c)
           /\ Abs(c[1] - px) > 5 \/ Abs(c[2] - py) > 5
    /\ DOMAIN draws.terminals = 1..Len(tdefs)
    /\ \A i \in DOMAIN draws.terminals :
           LET c == draws.terminals[i] IN
           /\ c[1] \in Max(2, tdefs[i][2] - 3)..Min(50 - 2, tdefs[i][2] + 5)
           /\ c[2] \in Max(2, tdefs[i][3] - 3)..Min(25 - 2, tdefs[i][3] + 5)
           /\ open(c)
    /\ floor < 3 =>
           /\ draws.down[1] \in (50 \div 2)..(50 - 2)
           /\ draws.down[2] \in (25 \div 2)..(25 - 2)
           /\ open(draws.down)
           /\ Abs(draws.down[1] - px) > 10
    /\ floor > 1 =>
           /\ draws.up[1] \in 2..(50 \div 3) /\ draws.up[2] \in 2..(25 \div 3)
           /\ open(draws.up)
    /\ DOMAIN draws.gates = 1..Len(gdefs)
    /\ \A i \in DOMAIN draws.gates :
           LET c == draws.gates[i] IN
           /\ c[1] \in Max(2, gdefs[i][2] - 3)..Min(50 - 2, gdefs[i][2] + 3)
           /\ c[2] \in Max(2, gdefs[i][3] - 3)..Min(25 - 2, gdefs[i][3] + 3)
           /\ open(c)

backup_generate_npcs(floor, random, draws) ==
    LET defs == floor_npcs(floor) IN
    IF random
    THEN [i \in 1..Len(defs) |->
             backup_Entity(draws.npcs[i][1], draws.npcs[i][2], defs[i].name)]
    ELSE [i \in 1..Min(Len(defs), Len(positions)) |->
             backup_Entity(positions[i][1], positions[i][2], defs[i].name)]

backup_generate_terminals(floor, random, draws) ==
    LET defs == floor_terminals(floor) IN
    [i \in 1..Len(defs) |->
        IF random
        THEN InfoTerminal(draws.terminals[i][1], draws.terminals[i][2], defs[i][1])
        ELSE InfoTerminal(defs[i][2], defs[i][3], defs[i][1])]

backup_generate_stairs(floor, random, draws) ==
    (IF floor < 3
     THEN IF random THEN <<Stairs(draws.down[1], draws.down[2], "down")>>
          ELSE <<Stairs(45, 20, "down")>>
     ELSE <<>>)
    \o
    (IF floor > 1
     THEN IF random THEN <<Stairs(draws.up[1], draws.up[2], "up")>>
          ELSE <<Stairs(10, 5, "up")>>
     ELSE <<>>)

backup_generate_gates(floor, random, draws) ==
    LET defs == gate_defs(floor) IN
    [i \in 1..Len(defs) |->
        IF random
        THEN Gate(draws.gates[i][1], draws.gates[i][2], defs[i][1])
        ELSE Gate(defs[i][2], defs[i][3], defs[i][1])]

\* the floor-local lists after _generate_floor() on floor
backup_generate_floor(floor, draws) ==
    /\ npcs' = backup_generate_npcs(floor, random_npcs, draws)
    /\ terminals' = backup_generate_terminals(floor, random_npcs, draws)
    /\ stairs' = backup_generate_stairs(floor, random_npcs, draws)
    /\ gates' = backup_generate_gates(floor, random_npcs, draws)
    /\ all_npcs' = ExtendAllNpcs(all_npcs, backup_generate_npcs(floor, random_npcs, draws))

(***************************************************************************)
(* Game.__init__ of the variant (50 x 25, max_floors = 3).  It keeps no    *)
(* score, no wander state and no NPC table of its own shape: those         *)
(* variables hold the definitions and their initial values throughout.     *)
(***************************************************************************)
backup_GameInit(random, draws) ==
    /\ npc_data = all_npc_defs
    /\ old_npc_positions = [n \in {} |-> <<0, 0>>]
    /\ random_npcs = random
    /\ current_floor = 1
    /\ game_map = 1
    /\ player = [x |-> 5, y |-> 5]
    /\ old_player_pos = NONE
    /\ active_conversation = NONE
    /\ active_terminal = NONE
    /\ npc_conversations = NPC_CONVERSATIONS
    /\ coherence = 100
    /\ knowledge_modules = {}
    /\ questions_answered = 0
    /\ questions_correct = 0
    /\ questions_wrong = 0
    /\ npcs_completed = {}
    /\ game_won = FALSE
    /\ npc_opinions = [n \in {} |-> 0]
    /\ quest_active = FALSE
    /\ quest_completed_npcs = {}
    /\ message = "welcome"
    /\ ret = NONE
    /\ random => accepted_draws(1, 5, 5, draws)
    /\ npcs = backup_generate_npcs(1, random, draws)
    /\ terminals = backup_generate_terminals(1, random, draws)
    /\ stairs = backup_generate_stairs(1, random, draws)
    /\ gates = backup_generate_gates(1, random, draws)
    /\ all_npcs = ExtendAllNpcs(<<>>, backup_generate_npcs(1, random, draws))

backupFixed == <<npc_data, old_npc_positions, random_npcs, scoreVars>>

(***************************************************************************)
(* Game.is_walkable, Game.move_player of the variant                       *)
(***************************************************************************)
backup_is_walkable(x, y) ==
    IF y < 0 \/ y >= 25 THEN FALSE
    ELSE IF x < 0 \/ x >= 50 THEN FALSE
    ELSE IF create_simple_map(50, 25, game_map, x, y) = "#" THEN FALSE
    ELSE IF \E i \in 1..Len(gates) :
                gates[i].x = x /\ gates[i].y = y /\ ~gates[i].unlocked THEN FALSE
    ELSE TRUE

\* the gates at a cell that are still locked, by their place in the list
LockedAt(x, y) ==
    {i \in 1..Len(gates) : gates[i].x = x /\ gates[i].y = y /\ ~gates[i].unlocked}

\* move_player opening a locked gate whatever the player knows
backup_move_player_opening(dx, dy) ==
    LET new_x == player.x + dx
        new_y == player.y + dy
        locked == LockedAt(new_x, new_y)
    IN
    IF active_conversation # NONE
    THEN /\ message' = "in_conversation"
         /\ ret' = FALSE
         /\ UNCHANGED <<backupFixed, gates, floorVars, playerVars, convVars,
                        active_terminal, statVars, questVars>>
    ELSE IF locked # {}
    THEN LET i == CHOOSE j \in locked : \A k \in locked : j <= k IN
         /\ gates' = [gates EXCEPT ![i].unlocked = TRUE]
         /\ message' = "gate_unlocked"
         /\ ret' = FALSE
         /\ UNCHANGED <<backupFixed, floorVars, playerVars, convVars,
                        active_terminal, statVars, questVars>>
    ELSE /\ IF backup_is_walkable(new_x, new_y)
            THEN /\ old_player_pos' = <<player.x, player.y>>
                 /\ player' = [x |-> new_x, y |-> new_y]
                 /\ message' = ""
                 /\ ret' = TRUE
            ELSE /\ message' = "blocked"
                 /\ ret' = FALSE
                 /\ UNCHANGED playerVars
         /\ UNCHANGED <<backupFixed, gates, floorVars, convVars, active_terminal,
                        statVars, questVars>>

\* move_player stepping onto the gate in the move that unlocks it
backup_move_player_through(dx, dy) ==
    LET new_x == player.x + dx
        new_y == player.y + dy
        locked == LockedAt(new_x, new_y)
    IN
    IF active_conversation # NONE
    THEN /\ message' = "in_conversation"
         /\ ret' = FALSE
         /\ UNCHANGED <<backupFixed, gates, floorVars, playerVars, convVars,
                        active_terminal, statVars, questVars>>
    ELSE IF locked # {}
    THEN LET i == CHOOSE j \in locked : \A k \in locked : j <= k IN
         IF gates[i].required_knowledge \in knowledge_modules
         THEN /\ gates' = [gates EXCEPT ![i].unlocked = TRUE]
              /\ old_player_pos' = <<player.x, player.y>>
              /\ player' = [x |-> new_x, y |-> new_y]
              /\ message' = "gate_unlocked"
              /\ ret' = TRUE
              /\ UNCHANGED <<backupFixed, floorVars, convVars, active_terminal,
                             statVars, questVars>>
         ELSE /\ message' = "gate_locked"
              /\ ret' = FALSE
              /\ UNCHANGED <<backupFixed, gates, floorVars, playerVars, convVars,
                             active_terminal, statVars, questVars>>
    ELSE /\ IF backup_is_walkable(new_x, new_y)
            THEN /\ old_player_pos' = <<player.x, player.y>>
                 /\ player' = [x |-> new_x, y |-> new_y]
                 /\ message' = ""
                 /\ ret' = TRUE
            ELSE /\ message' = "blocked"
                 /\ ret' = FALSE
                 /\ UNCHANGED playerVars
         /\ UNCHANGED <<backupFixed, gates, floorVars, convVars, active_terminal,
                        statVars, questVars>>

backup_move_player(dx, dy) ==
    LET new_x == player.x + dx
        new_y == player.y + dy
        locked == LockedAt(new_x, new_y)
    IN
    IF active_conversation # NONE
    THEN /\ message' = "in_conversation"
         /\ ret' = FALSE
         /\ UNCHANGED <<backupFixed, gates, floorVars, playerVars, convVars,
                        active_terminal, statVars, questVars>>
    ELSE IF locked # {}
    THEN LET i == CHOOSE j \in locked : \A k \in locked : j <= k IN
         /\ IF gates[i].required_knowledge \in knowledge_modules
            THEN /\ gates' = [gates EXCEPT ![i].unlocked = TRUE]
                 /\ message' = "gate_unlocked"
            ELSE /\ message' = "gate_locked"
                 /\ UNCHANGED gates
         /\ ret' = FALSE
         /\ UNCHANGED <<backupFixed, floorVars, playerVars, convVars,
                        active_terminal, statVars, questVars>>
    ELSE /\ IF backup_is_walkable(new_x, new_y)
            THEN /\ old_player_pos' = <<player.x, player.y>>
                 /\ player' = [x |-> new_x, y |-> new_y]
                 /\ message' = ""
                 /\ ret' = TRUE
            ELSE /\ message' = "blocked"
                 /\ ret' = FALSE
                 /\ UNCHANGED playerVars
         /\ UNCHANGED <<backupFixed, gates, floorVars, convVars, active_terminal,
                        statVars, questVars>>

(***************************************************************************)
(* Game.interact of the variant: terminals first, then the NPCs in list    *)
(* order; an entity is in reach within one cell on both axes.              *)
(***************************************************************************)
InReach(entity) == Abs(player.x - entity.x) <= 1 /\ Abs(player.y - entity.y) <= 1

backup_interact ==
    LET nearT == {i \in 1..Len(terminals) : InReach(terminals[i])}
        nearN == {i \in 1..Len(npcs) : InReach(npcs[i])}
    IN
    IF nearT # {}
    THEN LET terminal == terminals[CHOOSE i \in nearT : \A k \in nearT : i <= k] IN
         /\ active_terminal' = terminal.title
         /\ message' = "reading"
         /\ ret' = TRUE
         /\ UNCHANGED <<restVars, floorVars, playerVars, convVars, statVars,
                        scoreVars, questVars>>
    ELSE IF nearN # {}
    THEN LET npc_name == npcs[CHOOSE i \in nearN : \A k \in nearN : i <= k].name IN
         IF npc_name \notin DOMAIN npc_conversations
         THEN /\ message' = "nothing_to_say"
              /\ ret' = FALSE
              /\ UNCHANGED <<restVars, floorVars, playerVars, convVars, active_terminal,
                             statVars, scoreVars, questVars>>
         ELSE LET conversation == npc_conversations[npc_name] IN
         IF conversation.npc_type = "helper" /\ ~conversation.completed
         THEN /\ coherence' = Min(100, coherence + 20)
              /\ npc_conversations' =
                     [npc_conversations EXCEPT ![npc_name].completed = TRUE]
              /\ message' = "coherence_restored"
              /\ ret' = TRUE
              /\ UNCHANGED <<restVars, floorVars, playerVars, active_conversation,
                             active_terminal, knowledge_modules, npc_opinions,
                             scoreVars, questVars>>
         ELSE IF conversation.npc_type = "quest"
         THEN IF ~conversation.completed
              THEN /\ quest_active' = TRUE
                   /\ active_conversation' = npc_name
                   /\ message' = "greeting"
                   /\ ret' = TRUE
                   /\ UNCHANGED <<restVars, floorVars, playerVars, npc_conversations,
                                  active_terminal, statVars, scoreVars,
                                  quest_completed_npcs>>
              ELSE /\ IF {"ALGO_SPIRIT", "NET_DAEMON", "COMPILER_SAGE", "DB_GUARDIAN"}
                           \subseteq quest_completed_npcs
                      THEN /\ message' = "quest_complete"
                           /\ coherence' = Min(100, coherence + 50)
                      ELSE /\ message' = "quest_remaining"
                           /\ UNCHANGED coherence
                   /\ ret' = TRUE
                   /\ UNCHANGED <<restVars, floorVars, playerVars, convVars,
                                  active_terminal, knowledge_modules, npc_opinions,
                                  scoreVars, questVars>>
         ELSE /\ IF ~conversation.completed
                 THEN /\ active_conversation' = npc_name
                      /\ message' = "greeting"
                 ELSE /\ message' = "nothing_more"
                      /\ UNCHANGED active_conversation
              /\ ret' = TRUE
              /\ UNCHANGED <<restVars, floorVars, playerVars, npc_conversations,
                             active_terminal, statVars, scoreVars, questVars>>
    ELSE /\ message' = "no_one_nearby"
         /\ ret' = FALSE
         /\ UNCHANGED <<restVars, floorVars, playerVars, convVars, active_terminal,
                        statVars, scoreVars, questVars>>

(***************************************************************************)
(* Game.is_floor_complete, Game.use_stairs of the variant                  *)
(***************************************************************************)
floor_required_npcs(floor) ==
    CASE floor = 1 -> {"ALGO_SPIRIT", "HEAP_MASTER"}
      [] floor = 2 -> {"WEB_ARCHITECT", "CRYPTO_GUARDIAN", "SYSTEM_CORE"}
      [] OTHER -> {}

backup_is_floor_complete ==
    \A npc_name \in floor_required_npcs(current_floor) :
        /\ npc_name \in DOMAIN npc_conversations
        /\ npc_conversations[npc_name].completed

\* the floor change of use_stairs: the new floor, the arrival cell, the message
backup_change_floor(floor, x, y, kind, draws) ==
    /\ random_npcs => accepted_draws(floor, x, y, draws)
    /\ current_floor' = floor
    /\ game_map' = floor
    /\ player' = [x |-> x, y |-> y]
    /\ backup_generate_floor(floor, draws)
    /\ message' = kind
    /\ ret' = TRUE
    /\ UNCHANGED <<backupFixed, old_player_pos, convVars, active_terminal, statVars,
                   questVars>>

backup_refused(kind) ==
    /\ message' = kind
    /\ ret' = FALSE
    /\ UNCHANGED <<restVars, floorVars, playerVars, convVars, active_terminal,
                   statVars, scoreVars, questVars>>

backup_use_stairs(draws) ==
    LET here == {i \in 1..Len(stairs) :
                    player.x = stairs[i].x /\ player.y = stairs[i].y}
    IN
    IF here = {} THEN backup_refused("no_stairs")
    ELSE LET stair == stairs[CHOOSE i \in here : \A k \in here : i <= k] IN
    IF stair.direction = "down"
    THEN IF current_floor < 3
         THEN IF ~backup_is_floor_complete THEN backup_refused("cannot_descend")
              ELSE backup_change_floor(current_floor + 1, 10, 5, "descended", draws)
         ELSE backup_refused("no_deeper")
    ELSE IF stair.direction = "up"
    THEN IF current_floor > 1
         THEN backup_change_floor(current_floor - 1, 45, 20, "ascended", draws)
         ELSE backup_refused("top_layer")
    ELSE backup_refused("no_stairs")

(***************************************************************************)
(* Game.answer_question, Game.exit_conversation of the variant.  ret holds *)
(* the first component of the pair answer_question returns.                *)
(***************************************************************************)
backup_answer_question(answer_index) ==
    IF active_conversation = NONE
    THEN /\ ret' = FALSE
         /\ UNCHANGED <<restVars, floorVars, playerVars, convVars, active_terminal,
                        statVars, scoreVars, questVars, message>>
    ELSE LET conv == npc_conversations[active_conversation] IN
    IF conv.current_question_idx >= Len(conv.questions)
    THEN /\ npc_conversations' =
              [npc_conversations EXCEPT ![active_conversation].completed = TRUE]
         /\ active_conversation' = NONE
         /\ ret' = TRUE
         /\ UNCHANGED <<restVars, floorVars, playerVars, active_terminal, statVars,
                        scoreVars, questVars, message>>
    ELSE LET question == conv.questions[conv.current_question_idx + 1] IN
    IF answer_index < 0 \/ answer_index >= Len(question)
    THEN /\ ret' = FALSE
         /\ UNCHANGED <<restVars, floorVars, playerVars, convVars, active_terminal,
                        statVars, scoreVars, questVars, message>>
    ELSE LET answer == question[answer_index + 1]
             npc_name == conv.npc_name
             is_enemy == conv.npc_type = "enemy"
             opinion == Opinion(npc_name)
         IN
         IF answer.correct
         THEN LET next_idx == conv.current_question_idx + 1
                  done == next_idx >= Len(conv.questions)
              IN
              /\ coherence' = Min(100, coherence + 10)
              /\ npc_opinions' = SetOpinion(npc_name, opinion + 1)
              /\ knowledge_modules' =
                     IF answer.reward_knowledge # NONE
                     THEN knowledge_modules \cup {answer.reward_knowledge}
                     ELSE knowledge_modules
              /\ npc_conversations' =
                     [npc_conversations EXCEPT
                        ![active_conversation].current_question_idx = next_idx,
                        ![active_conversation].completed = done \/ conv.completed]
              /\ quest_completed_npcs' =
                     IF done /\ conv.npc_type = "specialist"
                     THEN quest_completed_npcs \cup {npc_name}
                     ELSE quest_completed_npcs
              /\ active_conversation' = IF done THEN NONE ELSE active_conversation
              /\ ret' = TRUE
              /\ UNCHANGED <<restVars, floorVars, playerVars, active_terminal,
                             scoreVars, quest_active, message>>
         ELSE LET penalty == IF is_enemy THEN answer.enemy_penalty ELSE 25 IN
              /\ coherence' = Max(0, coherence - penalty)
              /\ npc_opinions' = SetOpinion(npc_name, opinion - 1)
              /\ active_conversation' =
                     IF Max(0, coherence - penalty) <= 0 THEN NONE
                     ELSE active_conversation
              /\ ret' = FALSE
              /\ UNCHANGED <<restVars, floorVars, playerVars, npc_conversations,
                             active_terminal, knowledge_modules, scoreVars,
                             questVars, message>>

backup_exit_conversation ==
    IF active_conversation # NONE
    THEN /\ active_conversation' = NONE
         /\ message' = "conversation_ended"
         /\ ret' = TRUE
         /\ UNCHANGED <<restVars, floorVars, playerVars, npc_conversations,
                        active_terminal, statVars, scoreVars, questVars>>
    ELSE /\ ret' = FALSE
         /\ UNCHANGED <<restVars, floorVars, playerVars, convVars, active_terminal,
                        statVars, scoreVars, questVars, message>>

(***************************************************************************)
(* The environment of the variant: the commands of Game.process_command,   *)
(* on a game with fixed placement and on one with random placement.        *)
(* On layer 1 the player is steered along rows 5 and 4 and column 36 to    *)
(* the DOWN stairs, past MEMORY_HEALER, with branches to the cells around  *)
(* the gate, along row 13 to ALGO_SPIRIT and along row 15 to HEAP_MASTER;  *)
(* on layer 2 it stays at the arrival cell and its two neighbours.  A move *)
(* is also attempted against every wall and every locked gate the tour     *)
(* touches.                                                                *)
(* The other commands are issued at the stops of the tour: at the start    *)
(* cell, on stairs and wherever an NPC or a terminal is in reach.  An      *)
(* answer is a command only during a conversation; wrong answers are given *)
(* to the first question of ALGO_SPIRIT, at most MaxWrong of them.  The    *)
(* random generator draws from GateDraws: on layer 1 ALGO_SPIRIT lands at  *)
(* its nominal cell or next to the tour east of the gate, and the DOWN     *)
(* stairs at (45,20), or at (30,20) when the player stands too close.      *)
(***************************************************************************)
GateWalkArea ==
    IF current_floor = 1
    THEN HLine(5, 5, 14) \cup HLine(4, 14, 36) \cup VLine(36, 5, 19)
         \cup HLine(13, 26, 35) \cup HLine(12, 34, 35) \cup HLine(15, 37, 39)
         \cup HLine(19, 37, 45) \cup {<<45, 20>>}
    ELSE HLine(5, 9, 11)

GateDraws(floor, px) ==
    IF floor = 1
    THEN [npcs : {<< <<14, 8>>, <<35, 8>>, a, <<39, 16>>, <<10, 18>> >> :
                     a \in {<<25, 12>>, <<37, 13>>}},
          terminals : {<< <<8, 8>>, <<12, 10>> >>},
          down : IF Abs(45 - px) > 10 THEN {<<45, 20>>} ELSE {<<30, 20>>},
          up : {<<0, 0>>},
          gates : {<< <<35, 12>> >>}]
    ELSE [npcs : {<< <<16, 8>>, <<36, 8>>, <<26, 12>>, <<40, 15>>, <<10, 18>> >>},
          terminals : {<< <<8, 8>>, <<12, 10>>, <<8, 12>> >>},
          down : {<<45, 20>>},
          up : {<<10, 5>>},
          gates : {<< <<20, 10>>, <<35, 15>> >>}]

\* the gates of the current floor that are unlocked after the step
NowOpen == {<<current_floor', gates'[i].required_knowledge>> :
               i \in {j \in 1..Len(gates') : gates'[j].unlocked}}

GateMoveCmd ==
    /\ \E d \in Directions :
           /\ \/ <<player.x + d[1], player.y + d[2]>> \in GateWalkArea
              \/ ~backup_is_walkable(player.x + d[1], player.y + d[2])
              \/ active_conversation # NONE
           /\ backup_move_player(d[1], d[2])
    /\ opened' = opened \cup NowOpen
    /\ UNCHANGED <<frames, ret_info, line, build, games, placing, trip>>

GateAtStop ==
    \/ \E i \in 1..Len(npcs) : InReach(npcs[i])
    \/ \E i \in 1..Len(terminals) : InReach(terminals[i])
    \/ \E i \in 1..Len(stairs) : player.x = stairs[i].x /\ player.y = stairs[i].y
    \/ player = [x |-> 5, y |-> 5]

GateInteractCmd == GateAtStop /\ backup_interact /\ UNCHANGED <<frames, ret_info, line, build, games, placing, trip>>

GateStairsCmd ==
    /\ GateAtStop
    /\ \E floor \in {current_floor - 1, current_floor + 1} :
           \E draws \in GateDraws(floor, IF floor < current_floor THEN 45 ELSE 10) :
               backup_use_stairs(draws)
    /\ opened' = opened \cup NowOpen
    /\ UNCHANGED <<frames, ret_info, line, build, games, placing, trip>>

GateAnswerCmd ==
    /\ active_conversation # NONE
    /\ \E answer_index \in 0..3 :
           /\ SelectsWrong(answer_index) =>
                  /\ active_conversation = "ALGO_SPIRIT"
                  /\ npc_conversations[active_conversation].current_question_idx = 0
                  /\ Opinion(active_conversation) > 0 - MaxWrong
           /\ backup_answer_question(answer_index)
    /\ UNCHANGED <<frames, ret_info, line, build, games, placing, trip>>

GateExitCmd == GateAtStop /\ backup_exit_conversation /\ UNCHANGED <<frames, ret_info, line, build, games, placing, trip>>

InitGate ==
    /\ \/ backup_GameInit(FALSE, <<>>)
       \/ \E draws \in GateDraws(1, 5) : backup_GameInit(TRUE, draws)
    /\ opened = {}
    /\ frames = 0
    /\ ret_info = Info(NONE, <<>>) /\ line = <<>> /\ build = NoBuild /\ games = NoGames /\ placing = NoPlacing /\ trip = FirstTrip

NextGate ==
    GateMoveCmd \/ GateInteractCmd \/ GateStairsCmd \/ GateAnswerCmd \/ GateExitCmd

SpecGate == InitGate /\ [][NextGate]_vars

(***************************************************************************)
(* map_generation.create_map, write by write.  tiles is indexed by         *)
(* <<row, column>> as the list of rows is.  The wall writes of a floor are *)
(* listed in the order the loops attempt them, each loop with the test it  *)
(* makes; a write whose row or column is outside the list raises           *)
(* IndexError, which ends the build.                                       *)
(***************************************************************************)
\* for x in range(start, stop): if x < width: tiles[y][x] = "#"
RowWrites(y, start, stop, width) ==
    [i \in 1..Max(0, Min(stop, width) - start) |-> <<y, start + i - 1>>]

\* for y in range(start, stop): if y < height: tiles[y][x] = "#"
ColWrites(x, start, stop, height) ==
    [i \in 1..Max(0, Min(stop, height) - start) |-> <<start + i - 1, x>>]

floor_1_writes(width, height) ==
    RowWrites(10, 20, 35, width)
    \o ColWrites(15, 5, 15, height)
    \o (IF height > 18 /\ width > 30 THEN << <<18, 30>>, <<18, 31>>, <<17, 30>> >> ELSE <<>>)
    \o RowWrites(15, 40, 46, width)

floor_2_writes(width, height) ==
    ColWrites(25, 8, 18, height)
    \o ColWrites(35, 5, 12, height)
    \o RowWrites(15, 15, 25, width)
    \o RowWrites(20, 30, 40, width)
    \o RowWrites(8, 10, 15, width)
    \o ColWrites(10, 8, 12, height)

\* floor_3_writes whose wall in column 10 runs from the top to the bottom
floor_3_writes_sealed(width, height) ==
    RowWrites(12, 15, 40, width)
    \o RowWrites(8, 25, 35, width)
    \o ColWrites(35, 5, 12, height)
    \o ColWrites(20, 15, 22, height)
    \o ColWrites(10, 1, 24, height)
    \o RowWrites(18, 8, 18, width)
    \o [i \in 1..(2 * Max(0, Min(47, width) - 42)) |->
           <<IF i % 2 = 1 THEN 10 ELSE 17, 42 + (i - 1) \div 2>>]

floor_3_writes(width, height) ==
    RowWrites(12, 15, 40, width)
    \o RowWrites(8, 25, 35, width)
    \o ColWrites(35, 5, 12, height)
    \o ColWrites(20, 15, 22, height)
    \o ColWrites(10, 8, 15, height)
    \o RowWrites(18, 8, 18, width)
    \o [i \in 1..(2 * Max(0, Min(47, width) - 42)) |->
           <<IF i % 2 = 1 THEN 10 ELSE 17, 42 + (i - 1) \div 2>>]

floor_writes(width, height, floor) ==
    CASE floor = 1 -> floor_1_writes(width, height)
      [] floor = 2 -> floor_2_writes(width, height)
      [] floor = 3 -> floor_3_writes(width, height)
      [] OTHER -> <<>>

Cells(width, height) == (0..(height - 1)) \X (0..(width - 1))

\* tiles = [[" " for _ in range(width)] for _ in range(height)] and the two
\* loops that draw the outer walls
DrawOuterWalls ==
    /\ build.phase = "start"
    /\ build' = [build EXCEPT
           !.tiles = [c \in Cells(build.width, build.height) |->
                         IF \/ c[1] = 0 \/ c[1] = build.height - 1
                            \/ c[2] = 0 \/ c[2] = build.width - 1
                         THEN "#" ELSE " "],
           !.todo = floor_writes(build.width, build.height, build.floor),
           !.phase = "walls"]
    /\ UNCHANGED <<games, gameVars>>

\* one wall write of _draw_floor_walls: tiles[y][x] = "#"
WallWrite ==
    /\ build.phase = "walls"
    /\ build.todo # <<>>
    /\ LET at == Head(build.todo) IN
       IF at \in DOMAIN build.tiles
       THEN build' = [build EXCEPT !.tiles[at] = "#", !.todo = Tail(@)]
       ELSE build' = [build EXCEPT !.phase = "IndexError"]
    /\ UNCHANGED <<games, gameVars>>

\* the loop that fills the empty spaces with floor tiles, and the return
FillFloor ==
    /\ build.phase = "walls"
    /\ build.todo = <<>>
    /\ build' = [build EXCEPT
           !.tiles = [c \in DOMAIN build.tiles |->
                         IF /\ c[1] \in 1..(build.height - 2)
                            /\ c[2] \in 1..(build.width - 2)
                            /\ build.tiles[c] # "#"
                         THEN "." ELSE build.tiles[c]],
           !.phase = "done"]
    /\ UNCHANGED <<games, gameVars>>

(***************************************************************************)
(* SpecMap: create_map called with a size and a floor number, followed by  *)
(* a walk over the grid it returned: seen grows, one step at a time, from  *)
(* the player's start cell over the floor tiles next to it.                *)
(***************************************************************************)
Sizes == {<<50, 25>>, <<36, 21>>, <<30, 25>>, <<50, 9>>, <<14, 25>>}
MaxFloorNumber == 4

Next4(c) == {<<c[1] - 1, c[2]>>, <<c[1] + 1, c[2]>>, <<c[1], c[2] - 1>>, <<c[1], c[2] + 1>>}

Spread(tiles, seen) ==
    IF seen = {}
    THEN {c \in {<<PLAYER_START_Y, PLAYER_START_X>>} : c \in DOMAIN tiles /\ tiles[c] = "."}
    ELSE seen \cup {c \in UNION {Next4(s) : s \in seen} : c \in DOMAIN tiles /\ tiles[c] = "."}

Walk ==
    /\ build.phase = "done"
    /\ Spread(build.tiles, build.seen) # build.seen
    /\ build' = [build EXCEPT !.seen = Spread(build.tiles, build.seen)]
    /\ UNCHANGED <<games, gameVars>>

InitMap ==
    /\ \E size \in Sizes : \E floor \in 1..MaxFloorNumber :
           build = [width |-> size[1], height |-> size[2], floor |-> floor,
                    tiles |-> <<>>, todo |-> <<>>, phase |-> "start", seen |-> {}]
    /\ games = NoGames
    /\ placing = NoPlacing
    /\ GameInit(ContentA, "keep") /\ frames = 0 /\ ret_info = Info(NONE, <<>>) /\ line = <<>> /\ trip = FirstTrip

NextMap == DrawOuterWalls \/ WallWrite \/ FillFloor \/ Walk

SpecMap == InitMap /\ [][NextMap]_vars

(***************************************************************************)
(* Seeded random placement (Game.__init__ with random_npcs=True and a      *)
(* seed).  self.rand is the random module itself, so every game of a       *)
(* process draws from the one generator of the module, and random.seed     *)
(* sets the state of that generator.  The generator is a function of its   *)
(* state; a linear congruential step stands for the step of Python's.      *)
(***************************************************************************)
next_state(state) == (state * 75 + 74) % 65537

\* random.randint(a, b) drawn in state: the value and the state left behind
randint(state, a, b) ==
    LET after == next_state(state)
    IN  [state |-> after, value |-> a + (after % (b - a + 1))]

RECURSIVE place_npc(_, _, _, _)
place_npc(state, attempts, floor, at) ==
    IF attempts = 0
    THEN [state |-> state, found |-> FALSE, x |-> 0, y |-> 0]
    ELSE LET x == randint(state, 10, map_width - 2)
             y == randint(x.state, 5, map_height - 2)
         IN  IF /\ create_map(map_width, map_height, floor, x.value, y.value) # "#"
                /\ \/ Abs(x.value - at.x) > NPC_MIN_DISTANCE_FROM_PLAYER
                   \/ Abs(y.value - at.y) > NPC_MIN_DISTANCE_FROM_PLAYER
             THEN [state |-> y.state, found |-> TRUE, x |-> x.value, y |-> y.value]
             ELSE place_npc(y.state, attempts - 1, floor, at)

RECURSIVE place_npcs(_, _, _, _)
place_npcs(state, floor_npc_list, floor, at) ==
    IF floor_npc_list = <<>>
    THEN [state |-> state, placed |-> <<>>]
    ELSE LET first == place_npc(state, NPC_PLACEMENT_ATTEMPTS, floor, at)
             rest == place_npcs(first.state, Tail(floor_npc_list), floor, at)
         IN  [placed |-> (IF first.found
                          THEN << <<Head(floor_npc_list).name, first.x, first.y>> >>
                          ELSE <<>>) \o rest.placed,
              state |-> rest.state]

RECURSIVE place_terminal(_, _, _, _, _)
place_terminal(state, attempts, floor, x, y) ==
    IF attempts = 0
    THEN [state |-> state, x |-> x, y |-> y]
    ELSE LET tx == randint(state, Max(2, x - TERMINAL_X_OFFSET),
                           Min(map_width - 2, x + TERMINAL_X_BONUS))
             ty == randint(tx.state, Max(2, y - TERMINAL_Y_OFFSET),
                           Min(map_height - 2, y + TERMINAL_Y_BONUS))
         IN  IF create_map(map_width, map_height, floor, tx.value, ty.value) # "#"
             THEN [state |-> ty.state, x |-> tx.value, y |-> ty.value]
             ELSE place_terminal(ty.state, attempts - 1, floor, x, y)

RECURSIVE place_terminals(_, _, _)
place_terminals(state, defs, floor) ==
    IF defs = <<>>
    THEN [state |-> state, placed |-> <<>>]
    ELSE LET first == place_terminal(state, TERMINAL_PLACEMENT_ATTEMPTS, floor,
                                     Head(defs)[2], Head(defs)[3])
             rest == place_terminals(first.state, Tail(defs), floor)
         IN  [placed |-> << <<Head(defs)[1], first.x, first.y>> >> \o rest.placed,
              state |-> rest.state]

RECURSIVE place_stairs_down(_, _, _, _)
place_stairs_down(state, attempts, floor, at) ==
    IF attempts = 0
    THEN [state |-> state, placed |-> <<>>]
    ELSE LET x == randint(state, map_width \div 2, map_width - 2)
             y == randint(x.state, map_height \div 2, map_height - 2)
         IN  IF /\ create_map(map_width, map_height, floor, x.value, y.value) # "#"
                /\ Abs(x.value - at.x) > 10
             THEN [state |-> y.state, placed |-> <<Stairs(x.value, y.value, "down")>>]
             ELSE place_stairs_down(y.state, attempts - 1, floor, at)

RECURSIVE place_stairs_up(_, _, _)
place_stairs_up(state, attempts, floor) ==
    IF attempts = 0
    THEN [state |-> state, placed |-> <<>>]
    ELSE LET x == randint(state, 2, map_width \div 3)
             y == randint(x.state, 2, map_height \div 3)
         IN  IF create_map(map_width, map_height, floor, x.value, y.value) # "#"
             THEN [state |-> y.state, placed |-> <<Stairs(x.value, y.value, "up")>>]
             ELSE place_stairs_up(y.state, attempts - 1, floor)

\* _generate_floor with random placement: the positions it gives the NPCs,
\* the terminals and the stairs of the floor, and the generator state it leaves
random_generate_floor(state, data, floor, at) ==
    LET onFloor(info) == IsOnFloor(floor, info)
        known(d) == d[1] \in terminal_data
        n == place_npcs(state, SelectSeq(data, onFloor), floor, at)
        t == place_terminals(n.state, SelectSeq(terminal_defs(floor), known), floor)
        d == IF floor < max_floors
             THEN place_stairs_down(t.state, NPC_PLACEMENT_ATTEMPTS, floor, at)
             ELSE [state |-> t.state, placed |-> <<>>]
        u == IF floor > 1
             THEN place_stairs_up(d.state, NPC_PLACEMENT_ATTEMPTS, floor)
             ELSE [state |-> d.state, placed |-> <<>>]
    IN  [layout |-> [floor |-> floor, npcs |-> n.placed, terminals |-> t.placed,
                     stairs |-> d.placed \o u.placed],
         state |-> u.state]

(***************************************************************************)
(* SpecSeed: two games of one process, each created with a seed and then   *)
(* taken down and up the floors; each keeps the log of its generation      *)
(* calls.  Conversations draw nothing, so only the floor changes are       *)
(* followed.                                                               *)
(***************************************************************************)
Seeds == {7, 42}
MaxCalls == 3

\* one generation call of game g, made at position at on floor
Generated(g, cmd, seed, state, floor, at) ==
    LET gen == random_generate_floor(state, ContentD, floor, at)
    IN  games' = [games EXCEPT
            !.random = gen.state,
            !.game[g] = [@ EXCEPT !.created = TRUE,
                                  !.seed = seed,
                                  !.current_floor = floor,
                                  !.player = at,
                                  !.log = Append(@, [cmd |-> cmd, layout |-> gen.layout])]]

\* Game(random_npcs=True, seed=seed): random.seed(seed), then the first floor
SeededInit(g, seed) ==
    /\ ~games.game[g].created
    /\ Generated(g, "new", seed, seed, 1, [x |-> PLAYER_START_X, y |-> PLAYER_START_Y])
    /\ UNCHANGED <<build, gameVars>>

SeededDescend(g) ==
    /\ games.game[g].created
    /\ Len(games.game[g].log) < MaxCalls
    /\ games.game[g].current_floor < max_floors
    /\ Generated(g, "descend", games.game[g].seed, games.random, games.game[g].current_floor + 1,
                 [x |-> STAIRS_UP_DEFAULT_X, y |-> STAIRS_UP_DEFAULT_Y])
    /\ UNCHANGED <<build, gameVars>>

SeededAscend(g) ==
    /\ games.game[g].created
    /\ Len(games.game[g].log) < MaxCalls
    /\ games.game[g].current_floor > 1
    /\ Generated(g, "ascend", games.game[g].seed, games.random, games.game[g].current_floor - 1,
                 [x |-> STAIRS_DOWN_DEFAULT_X, y |-> STAIRS_DOWN_DEFAULT_Y])
    /\ UNCHANGED <<build, gameVars>>

InitSeed ==
    /\ games = NoGames
    /\ build = NoBuild
    /\ placing = NoPlacing
    /\ GameInit(ContentD, "keep") /\ frames = 0 /\ ret_info = Info(NONE, <<>>) /\ line = <<>> /\ trip = FirstTrip

NextSeed ==
    \E g \in GameIds :
        \/ \E seed \in Seeds : SeededInit(g, seed)
        \/ SeededDescend(g)
        \/ SeededAscend(g)

SpecSeed == InitSeed /\ [][NextSeed]_vars


(***************************************************************************)
(* SpecPlace: Game._generate_npcs with random placement, followed attempt  *)
(* by attempt.  A call is made for a floor with the player where the game  *)
(* puts it before the call: at the start cell in a new game, at the        *)
(* arrival cell after a descent or an ascent.  The generator's draws are   *)
(* inputs, taken from a few cells of the range it draws from.              *)
(***************************************************************************)
\* the cells the draws are taken from
PlaceDraws == {<<10, 5>>, <<15, 8>>, <<25, 12>>, <<45, 12>>, <<40, 20>>}

\* where the player is when the entities of a floor are generated
GenerationCells(floor) ==
    (IF floor = 1 THEN {[x |-> PLAYER_START_X, y |-> PLAYER_START_Y]} ELSE {})
    \cup (IF floor > 1 THEN {[x |-> STAIRS_UP_DEFAULT_X, y |-> STAIRS_UP_DEFAULT_Y]} ELSE {})
    \cup (IF floor < max_floors
          THEN {[x |-> STAIRS_DOWN_DEFAULT_X, y |-> STAIRS_DOWN_DEFAULT_Y]} ELSE {})

\* one pass of the inner loop: a cell is drawn; an accepted cell places the
\* NPC and ends the loop, a rejected one uses up an attempt
PlaceAttempt ==
    /\ placing.phase = "npcs"
    /\ placing.todo # <<>>
    /\ placing.attempts > 0
    /\ \E cell \in PlaceDraws :
          /\ cell[1] \in 10..(map_width - 2)
          /\ cell[2] \in 5..(map_height - 2)
          /\ IF accepted(placing.floor, placing.at, cell[1], cell[2])
             THEN placing' = [placing EXCEPT
                      !.npcs = Append(@, Entity(cell[1], cell[2], Head(placing.todo).name,
                                                Head(placing.todo).npc_type)),
                      !.todo = Tail(@),
                      !.attempts = NPC_PLACEMENT_ATTEMPTS]
             ELSE placing' = [placing EXCEPT !.attempts = @ - 1]
    /\ UNCHANGED <<build, games, frames, ret_info, line, trip, restVars, floorVars, playerVars,
                   convVars, active_terminal, statVars, scoreVars, questVars, message, ret>>

\* the inner loop ran out of attempts: the outer loop goes on to the next NPC
PlaceNext ==
    /\ placing.phase = "npcs"
    /\ placing.todo # <<>>
    /\ placing.attempts = 0
    /\ placing' = [placing EXCEPT !.todo = Tail(@), !.attempts = NPC_PLACEMENT_ATTEMPTS]
    /\ UNCHANGED <<build, games, frames, ret_info, line, trip, restVars, floorVars, playerVars,
                   convVars, active_terminal, statVars, scoreVars, questVars, message, ret>>

\* the outer loop is through
PlaceReturn ==
    /\ placing.phase = "npcs"
    /\ placing.todo = <<>>
    /\ placing' = [placing EXCEPT !.phase = "done"]
    /\ UNCHANGED <<build, games, frames, ret_info, line, trip, restVars, floorVars, playerVars,
                   convVars, active_terminal, statVars, scoreVars, questVars, message, ret>>

InitPlace ==
    /\ \E floor \in 1..max_floors : \E at \in GenerationCells(floor) :
           LET onFloor(info) == IsOnFloor(floor, info)
           IN  placing = [phase |-> "npcs", floor |-> floor, at |-> at,
                          todo |-> SelectSeq(ContentA, onFloor),
                          attempts |-> NPC_PLACEMENT_ATTEMPTS, npcs |-> <<>>]
    /\ build = NoBuild
    /\ games = NoGames
    /\ GameInit(ContentA, "keep") /\ frames = 0 /\ ret_info = Info(NONE, <<>>) /\ line = <<>> /\ trip = FirstTrip

NextPlace == PlaceAttempt \/ PlaceNext \/ PlaceReturn

SpecPlace == InitPlace /\ [][NextPlace]_vars



(***************************************************************************)
(* Properties.  A step is told from the handler that took it and from the  *)
(* state it started in; the expected results are written out from the      *)
(* configuration values.                                                   *)
(***************************************************************************)
ConvNames == DOMAIN npc_conversations

ActiveConv == npc_conversations[active_conversation]

\* the answer the index selects is a correct answer of the current question
SelectsCorrect(answer_index) ==
    /\ active_conversation # NONE
    /\ ActiveConv.current_question_idx < Len(ActiveConv.questions)
    /\ LET question == ActiveConv.questions[ActiveConv.current_question_idx + 1] IN
       /\ answer_index \in 0..(Len(question) - 1)
       /\ question[answer_index + 1].correct

\* the answer selected by the index, when it selects one
Selected(answer_index) ==
    ActiveConv.questions[ActiveConv.current_question_idx + 1][answer_index + 1]

CorrectStep(answer_index) == SelectsCorrect(answer_index) /\ answer_question(answer_index)
WrongStep(answer_index) == SelectsWrong(answer_index) /\ answer_question(answer_index)

OpinionOf(opinions, n) == IF n \in DOMAIN opinions THEN opinions[n] ELSE 0

(***************************************************************************)
(* C1: coherence is always an integer in 0..max_coherence, after every     *)
(* command and every tick; a correct answer never lowers it and a wrong    *)
(* answer never raises it.                                                 *)
(***************************************************************************)
C1_CoherenceStep ==
    /\ coherence' \in 0..max_coherence
    /\ \A answer_index \in AnswerIndices :
          /\ CorrectStep(answer_index) => coherence' >= coherence
          /\ WrongStep(answer_index) => coherence' <= coherence

C1_CoherenceBounded ==
    /\ coherence \in 0..max_coherence
    /\ [][C1_CoherenceStep]_vars

\* coherence was cut off at 0 by a wrong answer, after a correct one
C1_Witness ==
    /\ coherence = 0
    /\ ret = FALSE
    /\ questions_wrong >= 2
    /\ questions_correct >= 1

(***************************************************************************)
(* C2: the question index of every conversation never decreases and never  *)
(* exceeds the number of questions of the conversation.                    *)
(***************************************************************************)
C2_IndexInRange ==
    \A n \in ConvNames :
        npc_conversations[n].current_question_idx \in
            0..Len(npc_conversations[n].questions)

C2_IndexMonotone ==
    /\ C2_IndexInRange
    /\ [][/\ C2_IndexInRange'
          /\ \A n \in ConvNames :
                npc_conversations'[n].current_question_idx >=
                    npc_conversations[n].current_question_idx]_vars

\* a conversation of two questions was left, taken up again after a wrong
\* answer and finished, and the floor was changed afterwards
C2_Witness ==
    /\ current_floor = 2
    /\ questions_wrong >= 1
    /\ \E n \in ConvNames :
          /\ Len(npc_conversations[n].questions) = 2
          /\ npc_conversations[n].current_question_idx = 2
          /\ OpinionOf(npc_opinions, n) = 1

(***************************************************************************)
(* C3: completed is a one-way latch: no command, tick or floor transition  *)
(* sets the completed flag of a conversation back to false.                *)
(***************************************************************************)
C3_CompletedLatch ==
    [][\A n \in ConvNames :
          npc_conversations[n].completed => npc_conversations'[n].completed]_vars

\* back on layer 1 after a round trip, with its required NPCs still completed
C3_Witness ==
    /\ current_floor = 1
    /\ message = "ascended"
    /\ \A n \in FLOOR_REQUIRED_NPCS(1) :
          n \in ConvNames /\ npc_conversations[n].completed
    /\ \E n \in ConvNames :
          npc_conversations[n].npc_type = "helper" /\ npc_conversations[n].completed

(***************************************************************************)
(* C4: the set of knowledge tokens only grows, whatever the step; a        *)
(* correct answer whose reward is already owned leaves the set unchanged.  *)
(***************************************************************************)
C4_KnowledgeGrows ==
    [][/\ knowledge_modules \subseteq knowledge_modules'
       /\ \A answer_index \in AnswerIndices :
             (/\ CorrectStep(answer_index)
              /\ Selected(answer_index).reward_knowledge \in knowledge_modules)
             => knowledge_modules' = knowledge_modules]_vars

\* two tokens are owned, one of them granted twice, and the floor was changed
C4_Witness ==
    /\ current_floor = 2
    /\ questions_wrong >= 1
    /\ knowledge_modules = {"binary_search", "hashing", "complexity_theory"}
    /\ questions_correct = 4

(***************************************************************************)
(* C5: use_stairs on DOWN stairs fails and leaves the floor index, the     *)
(* player's position and the entities of the floor unchanged when some     *)
(* required NPC of the floor is not completed or the floor is the last     *)
(* one; otherwise it succeeds and the floor index grows by exactly one.    *)
(* A floor with no required NPC is complete.                               *)
(***************************************************************************)
OnDownStairs ==
    \E i \in 1..Len(stairs) :
        /\ stairs[i].x = player.x /\ stairs[i].y = player.y
        /\ stairs[i].direction = "down"

RequiredIncomplete ==
    \E n \in FLOOR_REQUIRED_NPCS(current_floor) :
        n \notin ConvNames \/ ~npc_conversations[n].completed

C5_DescendGate ==
    [][/\ (OnDownStairs /\ use_stairs) =>
             IF RequiredIncomplete \/ current_floor >= max_floors
             THEN /\ ret' = FALSE
                  /\ UNCHANGED <<current_floor, game_map, player, npcs, stairs, terminals>>
             ELSE /\ ret' = TRUE
                  /\ current_floor' = current_floor + 1
       /\ FLOOR_REQUIRED_NPCS(current_floor') = {} => is_floor_complete']_vars

\* a descent was refused with one required NPC completed and another not
C5_Witness ==
    /\ message = "cannot_descend"
    /\ ret = FALSE
    /\ OnDownStairs
    /\ \E n \in FLOOR_REQUIRED_NPCS(current_floor) :
          n \in ConvNames /\ npc_conversations[n].completed
    /\ RequiredIncomplete

(***************************************************************************)
(* C6: a successful floor transition, down or up, leaves every             *)
(* conversation (question index and completed flag), the knowledge set,    *)
(* coherence, the opinions, quest_active and the quest-completed set       *)
(* unchanged; what changes is the floor index, the grid, the player's      *)
(* position and the entity lists (and the reported message and result).    *)
(***************************************************************************)
C6_TransitionFrame ==
    [][current_floor' # current_floor =>
          /\ UNCHANGED <<npc_conversations, knowledge_modules, coherence, npc_opinions,
                         quest_active, quest_completed_npcs>>
          /\ UNCHANGED <<active_conversation, active_terminal, scoreVars, restVars,
                         old_player_pos>>
          /\ current_floor' \in {current_floor - 1, current_floor + 1}
          /\ game_map' = current_floor'
          /\ ret' = TRUE]_vars

\* just ascended, with the quest accepted, tokens owned and a wrong answer given
C6_Witness ==
    /\ message = "ascended"
    /\ quest_active
    /\ knowledge_modules # {}
    /\ questions_wrong >= 1
    /\ coherence \notin {STARTING_COHERENCE, max_coherence}

(***************************************************************************)
(* C7: while a conversation is active, a move in any direction fails and   *)
(* leaves the player's position unchanged.                                 *)
(***************************************************************************)
C7_NoMoveInConversation ==
    [][\A d \in Directions :
          (active_conversation # NONE /\ move_player(d[1], d[2]))
          => ret' = FALSE /\ player' = player]_vars

\* a move was refused during a conversation, next to a cell the player could enter
C7_Witness ==
    /\ active_conversation # NONE
    /\ message = "in_conversation"
    /\ ret = FALSE
    /\ \E d \in Directions : is_walkable(player.x + d[1], player.y + d[2])

(***************************************************************************)
(* C8: a correct answer to the last remaining question of the active       *)
(* conversation sets completed, clears the active conversation and, in the *)
(* same step, adds the NPC to the quest-completed set exactly when the     *)
(* conversation is of kind SPECIALIST.                                     *)
(***************************************************************************)
C8_Completion ==
    [][\A answer_index \in AnswerIndices :
          (/\ CorrectStep(answer_index)
           /\ ActiveConv.current_question_idx = Len(ActiveConv.questions) - 1)
          => /\ npc_conversations'[active_conversation].completed
             /\ active_conversation' = NONE
             /\ quest_completed_npcs' =
                  IF ActiveConv.npc_type = "specialist"
                  THEN quest_completed_npcs \cup {active_conversation}
                  ELSE quest_completed_npcs]_vars

\* an enemy and a specialist were both completed by answers; only the
\* specialist is in the quest-completed set
C8_Witness ==
    /\ \E n \in npcs_completed :
          npc_conversations[n].npc_type = "enemy" /\ n \notin quest_completed_npcs
    /\ \E n \in npcs_completed :
          npc_conversations[n].npc_type = "specialist" /\ n \in quest_completed_npcs

(***************************************************************************)
(* C9: a correct answer to the current question returns success, raises    *)
(* coherence by CORRECT_ANSWER_COHERENCE_GAIN capped at max_coherence,     *)
(* raises the opinion of the NPC by one, adds the reward token of the      *)
(* answer (if it has one) to the knowledge set, and advances the question  *)
(* index by exactly one.                                                   *)
(***************************************************************************)
C9_CorrectAnswer ==
    [][\A answer_index \in AnswerIndices :
          CorrectStep(answer_index)
          => /\ ret' = TRUE
             /\ coherence' = IF coherence + CORRECT_ANSWER_COHERENCE_GAIN > max_coherence
                              THEN max_coherence
                              ELSE coherence + CORRECT_ANSWER_COHERENCE_GAIN
             /\ active_conversation \in DOMAIN npc_opinions'
             /\ npc_opinions'[active_conversation] =
                  OpinionOf(npc_opinions, active_conversation) + 1
             /\ knowledge_modules' =
                  IF Selected(answer_index).reward_knowledge # NONE
                  THEN knowledge_modules \cup {Selected(answer_index).reward_knowledge}
                  ELSE knowledge_modules
             /\ npc_conversations'[active_conversation].current_question_idx =
                  ActiveConv.current_question_idx + 1]_vars

\* a correct answer has just been given at a coherence where the cap applied,
\* and the conversation goes on with its second question
C9_Witness ==
    /\ active_conversation # NONE
    /\ ret = TRUE
    /\ ActiveConv.current_question_idx = 1
    /\ coherence = max_coherence
    /\ questions_correct = 3
    /\ questions_wrong = 0

(***************************************************************************)
(* C10: a wrong answer never advances the question index and never sets    *)
(* completed; coherence stays at 0 or above; the conversation stays active *)
(* while coherence is above 0 and is cleared, not completed, when          *)
(* coherence reaches 0.  Only an answer moves a question index, so an      *)
(* interact that takes the conversation up again finds the same question.  *)
(***************************************************************************)
C10_WrongAnswer ==
    [][/\ \A answer_index \in AnswerIndices :
             WrongStep(answer_index)
             => /\ ret' = FALSE
                /\ npc_conversations' = npc_conversations
                /\ ~npc_conversations'[active_conversation].completed
                /\ coherence' >= 0
                /\ coherence' > 0 => active_conversation' = active_conversation
                /\ coherence' = 0 => active_conversation' = NONE
       /\ \A n \in ConvNames :
             (active_conversation' = n /\ active_conversation # n)
             => /\ npc_conversations'[n] = npc_conversations[n]
                /\ ~npc_conversations[n].completed]_vars

\* the conversation that was cleared at coherence 0 is active again, at the
\* question it was left at
C10_Witness ==
    /\ coherence = 0
    /\ active_conversation # NONE
    /\ message = "greeting"
    /\ ~ActiveConv.completed
    /\ ActiveConv.current_question_idx = 0
    /\ OpinionOf(npc_opinions, active_conversation) = 0 - 2

(***************************************************************************)
(* C11: a wrong answer in an ENEMY conversation lowers coherence by the    *)
(* enemy_penalty of the chosen answer, floored at 0; a wrong answer in a   *)
(* conversation of any other kind lowers it by                             *)
(* WRONG_ANSWER_COHERENCE_PENALTY, floored at 0.                           *)
(***************************************************************************)
C11_AnswerPenalty ==
    [][\A answer_index \in AnswerIndices :
          WrongStep(answer_index)
          => coherence' =
               IF ActiveConv.npc_type = "enemy"
               THEN IF coherence - Selected(answer_index).enemy_penalty < 0 THEN 0
                    ELSE coherence - Selected(answer_index).enemy_penalty
               ELSE IF coherence - WRONG_ANSWER_COHERENCE_PENALTY < 0 THEN 0
                    ELSE coherence - WRONG_ANSWER_COHERENCE_PENALTY]_vars

(***************************************************************************)
(* C12: while a conversation is active and has a current question,         *)
(* answer_question with an index outside the range of the question's       *)
(* answers returns failure and changes nothing: the conversations (index   *)
(* and completed flag), the active conversation, coherence, the opinions,  *)
(* the knowledge set and the score counters stay as they are, and so does  *)
(* the rest of the game.                                                   *)
(***************************************************************************)
OutOfRange(answer_index) ==
    /\ active_conversation # NONE
    /\ ActiveConv.current_question_idx < Len(ActiveConv.questions)
    /\ LET question == ActiveConv.questions[ActiveConv.current_question_idx + 1]
       IN  answer_index < 0 \/ answer_index > Len(question) - 1

C12_InvalidIndex ==
    [][\A answer_index \in AnswerIndices :
          (OutOfRange(answer_index) /\ answer_question(answer_index))
          => /\ ret' = FALSE
             /\ UNCHANGED <<npc_conversations, active_conversation, coherence,
                            npc_opinions, knowledge_modules, scoreVars>>
             /\ UNCHANGED <<questVars, floorVars, playerVars, active_terminal,
                            restVars, message>>]_vars

\* an answer was refused in the middle of a conversation, with no wrong
\* answer given so far
C12_Witness ==
    /\ active_conversation # NONE
    /\ ret = FALSE
    /\ message = "greeting"
    /\ questions_wrong = 0
    /\ questions_correct >= 1
    /\ ActiveConv.current_question_idx = 1

(***************************************************************************)
(* C13: the quest-completion bonus is applied at most once.  The message   *)
(* of the completed quest is shown only by the interaction that grants the *)
(* bonus, so in a state that shows it the bonus has been granted: a        *)
(* further interaction with the QUEST NPC does not raise coherence again.  *)
(***************************************************************************)
C13_BonusOnce ==
    [][(message = "quest_complete" /\ interact) => coherence' <= coherence]_vars

(***************************************************************************)
(* C14: an interaction with a HELPER NPC whose conversation is not         *)
(* completed raises coherence by HELPER_COHERENCE_RESTORE capped at        *)
(* max_coherence, sets completed and leaves no conversation active; an     *)
(* interaction with a HELPER whose conversation is completed leaves        *)
(* coherence as it is.  With completed never reset, each HELPER restores   *)
(* coherence at most once.                                                 *)
(***************************************************************************)
IsHelper(npc) ==
    /\ npc.name \in ConvNames
    /\ npc_conversations[npc.name].npc_type = "helper"

C14_HelperOnce ==
    [][\A i \in 1..Len(npcs) :
          (IsHelper(npcs[i]) /\ _interact_with_npc(npcs[i]))
          => /\ npc_conversations'[npcs[i].name].completed
             /\ IF npc_conversations[npcs[i].name].completed
                THEN coherence' = coherence
                ELSE /\ coherence' =
                          IF coherence + HELPER_COHERENCE_RESTORE > max_coherence
                          THEN max_coherence
                          ELSE coherence + HELPER_COHERENCE_RESTORE
                     /\ active_conversation' = NONE]_vars

\* a helper that has restored coherence was asked again and gave nothing,
\* with coherence below the maximum
C14_Witness ==
    /\ message = "nothing_more"
    /\ coherence < max_coherence
    /\ \E i \in 1..Len(npcs) :
          /\ IsHelper(npcs[i])
          /\ npc_conversations[npcs[i].name].completed
          /\ Max(Abs(player.x - npcs[i].x), Abs(player.y - npcs[i].y)) <= 1

C16_Exit ==
    [][/\ (frames' = frames /\ exit_conversation)
          => /\ UNCHANGED <<npc_conversations, coherence, knowledge_modules>>
             /\ IF active_conversation # NONE
                THEN ret' = TRUE /\ active_conversation' = NONE
                ELSE /\ ret' = FALSE
                     /\ UNCHANGED <<active_conversation, message, npc_opinions,
                                    scoreVars, questVars, floorVars, playerVars,
                                    active_terminal, restVars>>
       /\ \A n \in ConvNames :
             (message = "conversation_ended" /\ interact /\ active_conversation' = n)
             => npc_conversations'[n].current_question_idx =
                    npc_conversations[n].current_question_idx]_vars

\* a conversation of two questions was left after its first question
C16_Witness ==
    /\ message = "conversation_ended"
    /\ ret = TRUE
    /\ active_conversation = NONE
    /\ \E n \in ConvNames :
          /\ Len(npc_conversations[n].questions) = 2
          /\ npc_conversations[n].current_question_idx = 1
          /\ ~npc_conversations[n].completed

(***************************************************************************)
(* C17: interact targets, among the NPCs, terminals and stairs within      *)
(* Chebyshev distance 1 of the player, one at the smallest distance, an    *)
(* NPC before a terminal and a terminal before stairs at that distance;    *)
(* with nothing in reach it fails.  The target shows in what interact      *)
(* does: the interaction with that NPC, the reading of that terminal, or   *)
(* the use of the stairs.  (interact moves the player only to another      *)
(* floor, and a step of the frame loop is no command.)                     *)
(***************************************************************************)
Cheb(entity) ==
    LET ax == IF player.x >= entity.x THEN player.x - entity.x ELSE entity.x - player.x
        ay == IF player.y >= entity.y THEN player.y - entity.y ELSE entity.y - player.y
    IN  IF ax >= ay THEN ax ELSE ay

\* the indices of the entities of a list at distance d
AtDist(entities, d) == {i \in 1..Len(entities) : Cheb(entities[i]) = d}

AnyAtDist(d) ==
    AtDist(npcs, d) # {} \/ AtDist(terminals, d) # {} \/ AtDist(stairs, d) # {}

NearestDist == IF AnyAtDist(0) THEN 0 ELSE 1

OnSomeStairs == \E i \in 1..Len(stairs) : stairs[i].x = player.x /\ stairs[i].y = player.y

C18_NoStairs ==
    [][(~OnSomeStairs /\ frames' = frames /\ use_stairs)
          => /\ ret' = FALSE
             /\ message' = "no_stairs"
             /\ UNCHANGED <<floorVars, playerVars, convVars, statVars, scoreVars,
                            questVars, active_terminal, restVars>>]_vars

\* use_stairs was refused one cell away from stairs, on the floor the player
\* had descended to
C18_Witness ==
    /\ message = "no_stairs"
    /\ ret = FALSE
    /\ ~OnSomeStairs
    /\ \E i \in 1..Len(stairs) : Cheb(stairs[i]) = 1
    /\ current_floor = 2

(***************************************************************************)
(* C19: the floor index stays within 1..max_floors whatever the commands:  *)
(* no command leads above floor 1 or below the last floor, use_stairs on   *)
(* floor 1 never ascends and on the last floor never descends, and every   *)
(* step that changes the floor index changes it by exactly one.            *)
(***************************************************************************)
C19_FloorStep ==
    /\ current_floor' \in 1..max_floors
    /\ current_floor' # current_floor
       => \/ current_floor' = current_floor + 1
          \/ current_floor' = current_floor - 1
    /\ (frames' = frames /\ use_stairs)
       => /\ current_floor = 1 => current_floor' >= current_floor
          /\ current_floor = max_floors => current_floor' <= current_floor

C19_FloorInRange ==
    /\ current_floor \in 1..max_floors
    /\ [][C19_FloorStep]_vars

\* use_stairs was refused on the last floor
C19_Witness ==
    /\ current_floor = max_floors
    /\ message = "no_stairs"
    /\ ret = FALSE

(***************************************************************************)
(* C20.  In the gate-bearing variant, a move attempted onto the cell of a  *)
(* locked gate whose required token the player does not own fails: the     *)
(* call returns False, the gate is still locked afterwards and the player  *)
(* stands where it stood.                                                  *)
(***************************************************************************)
C20_LockedGate ==
    [][\A d \in Directions : \A i \in 1..Len(gates) :
          ( /\ gates[i].x = player.x + d[1]
            /\ gates[i].y = player.y + d[2]
            /\ ~gates[i].unlocked
            /\ gates[i].required_knowledge \notin knowledge_modules
            /\ backup_move_player(d[1], d[2]) )
          => /\ ret' = FALSE
             /\ ~gates'[i].unlocked
             /\ player' = player]_vars

\* the player, turned away by the locked gate next to it, outside a conversation
C20_Witness ==
    /\ message = "gate_locked"
    /\ ret = FALSE
    /\ active_conversation = NONE
    /\ \E i \in 1..Len(gates) :
           /\ ~gates[i].unlocked
           /\ gates[i].required_knowledge \notin knowledge_modules
           /\ Abs(gates[i].x - player.x) + Abs(gates[i].y - player.y) = 1


(***************************************************************************)
(* C21.  In the gate-bearing variant, a move attempted onto the cell of a  *)
(* locked gate whose required token the player owns unlocks the gate,      *)
(* returns False and leaves the player where it stood; a later move onto   *)
(* the cell puts the player on it.  As stated, for every such move:        *)
(***************************************************************************)
C21_TwoStepAlways ==
    [][\A d \in Directions : \A i \in 1..Len(gates) :
          ( /\ gates[i].x = player.x + d[1]
            /\ gates[i].y = player.y + d[2]
            /\ ~gates[i].unlocked
            /\ gates[i].required_knowledge \in knowledge_modules
            /\ backup_move_player(d[1], d[2]) )
          => /\ gates'[i].unlocked
             /\ ret' = FALSE
             /\ player' = player]_vars

\* C21 for the moves made while no conversation is active: the first move
\* unlocks and fails, a move onto the unlocked gate succeeds
C21_TwoStep ==
    [][\A d \in Directions : \A i \in 1..Len(gates) :
          ( /\ gates[i].x = player.x + d[1]
            /\ gates[i].y = player.y + d[2]
            /\ active_conversation = NONE
            /\ gates[i].unlocked \/ gates[i].required_knowledge \in knowledge_modules
            /\ backup_move_player(d[1], d[2]) )
          => IF gates[i].unlocked
             THEN /\ ret' = TRUE
                  /\ player' = [x |-> gates[i].x, y |-> gates[i].y]
                  /\ gates' = gates
             ELSE /\ gates'[i].unlocked
                  /\ ret' = FALSE
                  /\ player' = player]_vars

\* the player stands on the cell of the gate it has unlocked
C21_Witness ==
    \E i \in 1..Len(gates) :
        /\ gates[i].unlocked
        /\ player = [x |-> gates[i].x, y |-> gates[i].y]
        /\ ret = TRUE


(***************************************************************************)
(* C22.  In the gate-bearing variant a gate, told by its floor and its     *)
(* required token, that was unlocked once is unlocked whenever its floor   *)
(* is the current one, also after the player left the floor and came back; *)
(* and the player never stands on the cell of a locked gate.               *)
(***************************************************************************)
C22_OneWay ==
    /\ \A i \in 1..Len(gates) :
           <<current_floor, gates[i].required_knowledge>> \in opened
               => gates[i].unlocked
    /\ \A i \in 1..Len(gates) :
           ~gates[i].unlocked => player # [x |-> gates[i].x, y |-> gates[i].y]


\* C23: a command that is not recognized in the current mode (a digit 1-4
\* with no conversation active included) returns failure with the
\* unknown-command text and changes no game state; a recognized command
\* in capitals or between blanks does what the plain command does.
Digits == {<<"1">>, <<"2">>, <<"3">>, <<"4">>}
Recognized(word) ==
    \/ word \in Digits /\ active_conversation # NONE
    \/ word \in {<<"u", "p">>, <<"w">>, <<"d", "o", "w", "n">>, <<"s">>, <<"l", "e", "f", "t">>,
                 <<"a">>, <<"r", "i", "g", "h", "t">>, <<"d">>,
                 <<"i", "n", "t", "e", "r", "a", "c", "t">>, <<"i">>,
                 <<"s", "t", "a", "i", "r", "s">>, <<"u", "s", "e">>, <<">">>, <<"<">>,
                 <<"e", "x", "i", "t">>, <<"e", "s", "c">>}
GameState ==
    <<restVars, floorVars, playerVars, convVars, active_terminal, statVars, scoreVars,
      questVars, message>>
C23_UnknownCommand ==
    [][\A word \in Words : \A command \in Spellings(word) :
          line' = command =>
              IF Recognized(word)
              THEN /\ ret_info'.text # "Unknown command: "
                   /\ process_command(word)
              ELSE /\ ret' = FALSE
                   /\ ret_info'.text = "Unknown command: "
                   /\ GameState' = GameState]_vars
\* a digit was refused while no conversation was active, away from the start
C23_Witness ==
    /\ line = <<" ", "\t", "1", "\n">>
    /\ ret_info = Info("Unknown command: ", <<"1">>)
    /\ ret = FALSE
    /\ active_conversation = NONE
    /\ player # [x |-> PLAYER_START_X, y |-> PLAYER_START_Y]


C25_FrozenWhileTalking ==
    [][(frames' # frames /\ active_conversation # NONE) =>
          /\ npcs' = npcs
          /\ old_npc_positions' = old_npc_positions
          /\ <<restVars, floorVars, playerVars, convVars, active_terminal, statVars,
               scoreVars, questVars, message, ret>>'
             = <<restVars, floorVars, playerVars, convVars, active_terminal, statVars,
                 scoreVars, questVars, message, ret>>]_vars
\* a tick has been issued, a conversation is active, and every NPC is still
\* as it was placed (a tick outside a conversation starts a wander phase)
C25_Witness ==
    /\ frames < MaxTicks
    /\ npc_data = ContentW
    /\ active_conversation # NONE
    /\ \A i \in 1..Len(npcs) :
           /\ npcs[i].wander_state = "idle"
           /\ npcs[i].wander_ticks_remaining = 0
           /\ npcs[i].move_cooldown = 0
           /\ npcs[i].x = npcs[i].home_x
           /\ npcs[i].y = npcs[i].home_y


\* the builder has returned or raised
Stopped == build.phase \in {"done", "IndexError"}

\* C26: for every floor number and every size, the built grid has a wall on
\* every border cell and a floor tile on every interior cell that no segment
\* of the floor's template covers, no cell is left unfilled, a floor beyond
\* the templates is a bare room, and the grid is a function of the size and
\* the floor number alone.
C26_BuiltGrid ==
    Stopped =>
        \A c \in Cells(build.width, build.height) :
            /\ c \in DOMAIN build.tiles
            /\ build.tiles[c] = create_map(build.width, build.height, build.floor, c[2], c[1])
            /\ build.tiles[c] = "." <=>
                   /\ c[1] \in 1..(build.height - 2)
                   /\ c[2] \in 1..(build.width - 2)
                   /\ ~_draw_floor_walls(build.width, build.height, build.floor, c[2], c[1])
            /\ build.floor > 3 =>
                   (build.tiles[c] = "#" <=> \/ c[1] \in {0, build.height - 1}
                                            \/ c[2] \in {0, build.width - 1})

\* C27: every wall write of the builder lands inside the grid, whatever the
\* size: no write outside the rows or outside the columns is attempted.
C27_WritesInside ==
    (build.phase = "walls" /\ build.todo # <<>>) =>
        /\ Head(build.todo)[1] \in 0..(build.height - 1)
        /\ Head(build.todo)[2] \in 0..(build.width - 1)

\* C28: on floors 1 to 3 at the default size, every floor tile is reached
\* from the player's start cell by steps to the four neighbours over floor
\* tiles.
WalkDone == build.phase = "done" /\ Spread(build.tiles, build.seen) = build.seen
C28_AllReachable ==
    (/\ WalkDone
     /\ build.width = DEFAULT_MAP_WIDTH /\ build.height = DEFAULT_MAP_HEIGHT
     /\ build.floor \in 1..3)
        => build.seen = {c \in DOMAIN build.tiles : build.tiles[c] = "."}
\* the walk over floor 3 at the default size has ended, having left the
\* start cell
C28_Witness ==
    /\ WalkDone
    /\ build.width = DEFAULT_MAP_WIDTH /\ build.height = DEFAULT_MAP_HEIGHT
    /\ build.floor = 3
    /\ <<PLAYER_START_Y, PLAYER_START_X>> \in build.seen
    /\ <<1, 1>> \in build.seen


\* C29: after every floor generation the stairs list of the current floor
\* holds at most one DOWN and at most one UP stairs; floor 1 has no UP
\* stairs and the last floor has no DOWN stairs.
StairsOf(direction) == {i \in 1..Len(stairs) : stairs[i].direction = direction}
C29_StairsPerFloor ==
    /\ Cardinality(StairsOf("down")) <= 1
    /\ Cardinality(StairsOf("up")) <= 1
    /\ Cardinality(StairsOf("down")) + Cardinality(StairsOf("up")) = Len(stairs)
    /\ current_floor = 1 => StairsOf("up") = {}
    /\ current_floor = max_floors => StairsOf("down") = {}
\* the last floor has been generated on the way down, the middle one on the
\* way back up
C29_Witness ==
    /\ current_floor = max_floors - 1
    /\ Cardinality(StairsOf("down")) = 1
    /\ Cardinality(StairsOf("up")) = 1
    /\ player = [x |-> STAIRS_DOWN_DEFAULT_X, y |-> STAIRS_DOWN_DEFAULT_Y]
    /\ \E i \in 1..Len(all_npcs) : all_npcs[i] = "VIRUS_HUNTER"


\* C30: two games created with the same seed (same placement mode and
\* dimensions) and driven by the same sequence of commands and generation
\* calls have the same NPC, terminal and stairs positions on every floor
\* visited.
SameDrive(i) ==
    \A j \in 1..i : games.game["a"].log[j].cmd = games.game["b"].log[j].cmd
C30_SameSeedSamePlaces ==
    (/\ games.game["a"].created /\ games.game["b"].created
     /\ games.game["a"].seed = games.game["b"].seed)
        => \A i \in 1..Min(Len(games.game["a"].log), Len(games.game["b"].log)) :
               SameDrive(i) => games.game["a"].log[i].layout = games.game["b"].log[i].layout

(***************************************************************************)
(* C31: interacting with an info terminal succeeds and changes only what   *)
(* is displayed (the active terminal and the message): coherence, the      *)
(* knowledge set, every conversation, the active conversation, the quest   *)
(* state, the player's position and the floor are unchanged.  The terminal *)
(* is the target when, at the smallest distance at which anything is in    *)
(* reach, there is a terminal and no NPC.                                  *)
(***************************************************************************)
TerminalIsTarget ==
    /\ AnyAtDist(0) \/ AnyAtDist(1)
    /\ AtDist(npcs, NearestDist) = {}
    /\ AtDist(terminals, NearestDist) # {}

C31_TerminalReadOnly ==
    [][(frames' = frames /\ TerminalIsTarget /\ interact)
          => /\ ret' = TRUE
             /\ active_terminal' # NONE
             /\ UNCHANGED <<coherence, knowledge_modules, npc_conversations,
                            active_conversation, quest_active, quest_completed_npcs,
                            player, current_floor>>]_vars

\* a terminal is being read by a player who has answered questions, won a
\* knowledge module and lost coherence before
C31_Witness ==
    /\ active_terminal # NONE
    /\ message = "reading"
    /\ ret = TRUE
    /\ knowledge_modules # {}
    /\ questions_wrong > 0
    /\ coherence < STARTING_COHERENCE

(***************************************************************************)
(* C32: in random placement mode every NPC that is placed sits on a FLOOR  *)
(* cell whose Chebyshev distance from the player's position at generation  *)
(* time exceeds the minimum distance; an NPC for which all the attempts    *)
(* fail is omitted (and only such an NPC is), and each NPC name appears at *)
(* most once in the floor's NPC list.                                      *)
(***************************************************************************)
WellPlaced(list, floor, at) ==
    /\ \A i \in 1..Len(list) :
          /\ create_map(map_width, map_height, floor, list[i].x, list[i].y) = "."
          /\ Max(Abs(list[i].x - at.x), Abs(list[i].y - at.y))
                > NPC_MIN_DISTANCE_FROM_PLAYER
    /\ \A i, j \in 1..Len(list) : list[i].name = list[j].name => i = j

C32_RandomNpcs ==
    [][(placing.phase = "npcs" /\ placing' # placing)
          => /\ WellPlaced(placing'.npcs, placing.floor, placing.at)
             /\ Len(placing'.todo) < Len(placing.todo)
                => IF placing.attempts = 0
                   THEN placing'.npcs = placing.npcs
                   ELSE /\ Len(placing'.npcs) = Len(placing.npcs) + 1
                        /\ placing'.npcs[Len(placing'.npcs)].name = Head(placing.todo).name]_vars

\* a floor's placement is through with its first NPC omitted, after every
\* attempt failed, and a later one placed
C32_Witness ==
    /\ placing.phase = "done"
    /\ placing.floor = 1
    /\ Len(placing.npcs) = 2
    /\ placing.npcs[1].name = "HEAP_MASTER"

(***************************************************************************)
(* C33: in random placement mode no two NPCs of a floor are placed on the  *)
(* same cell, whatever the random draws.                                   *)
(***************************************************************************)
C33_NoSharedCell ==
    placing.phase \in {"npcs", "done"}
    => \A i, j \in 1..Len(placing.npcs) :
          (placing.npcs[i].x = placing.npcs[j].x /\ placing.npcs[i].y = placing.npcs[j].y)
          => i = j

(***************************************************************************)
(* C34: a wander tick moves each NPC by at most one cell per axis and only *)
(* onto a walkable cell that is neither the player's cell nor occupied by  *)
(* another NPC, and it changes neither the player's position nor           *)
(* coherence, the knowledge set, the floor index or any conversation; no   *)
(* command (move, interact, answer, use-stairs, exit) moves an NPC of the  *)
(* current floor.  A step that lowers frames is a tick, every other step   *)
(* is a command.                                                           *)
(***************************************************************************)
MovedInTick(i) == npcs'[i].x # npcs[i].x \/ npcs'[i].y # npcs[i].y

C34_WanderTick ==
    [][IF frames' # frames
       THEN /\ Len(npcs') = Len(npcs)
            /\ \A i \in 1..Len(npcs) :
                  /\ npcs'[i].name = npcs[i].name
                  /\ Abs(npcs'[i].x - npcs[i].x) <= 1
                  /\ Abs(npcs'[i].y - npcs[i].y) <= 1
                  /\ MovedInTick(i)
                     => /\ is_walkable(npcs'[i].x, npcs'[i].y)
                        /\ ~(npcs'[i].x = player.x /\ npcs'[i].y = player.y)
                        /\ \A j \in 1..Len(npcs) :
                              j # i => ~(npcs'[j].x = npcs'[i].x /\ npcs'[j].y = npcs'[i].y)
            /\ UNCHANGED <<player, coherence, knowledge_modules, current_floor,
                           npc_conversations, active_conversation>>
       ELSE \A i \in 1..Len(npcs), j \in 1..Len(npcs') :
                npcs'[j].name = npcs[i].name
                => npcs'[j].x = npcs[i].x /\ npcs'[j].y = npcs[i].y]_vars

\* after the ticks the first NPC is where it was, next to the second one,
\* which has moved, and the player stands next to both and has talked to one
C34_Witness ==
    /\ random_npcs
    /\ frames = 0
    /\ Len(npcs) = 2
    /\ npcs[1].x = npcs[1].home_x /\ npcs[1].y = npcs[1].home_y
    /\ npcs[1].wander_state = "wander"
    /\ npcs[2].x # npcs[2].home_x
    /\ Max(Abs(npcs[1].x - npcs[2].x), Abs(npcs[1].y - npcs[2].y)) = 1
    /\ Max(Abs(npcs[1].x - player.x), Abs(npcs[1].y - player.y)) = 1
    /\ questions_answered > 0

(***************************************************************************)
(* C35: while a conversation is active no command changes the current      *)
(* floor or the player's position; in particular use-stairs and interact   *)
(* issued during a conversation perform no floor transition, whatever      *)
(* shares or adjoins the player's cell.  (A step that lowers frames is no  *)
(* command.)                                                               *)
(***************************************************************************)
C35_NoTransitionWhileTalking ==
    [][(active_conversation # NONE /\ frames' = frames)
          => UNCHANGED <<current_floor, player>>]_vars

(***************************************************************************)
(* C36: whenever a conversation is active it is of kind SPECIALIST or      *)
(* ENEMY and its completed flag is false, and, if it has at least one      *)
(* question, its current_question_idx is strictly below its number of      *)
(* questions.  (HELPER and QUEST conversations never become active.)       *)
(***************************************************************************)
C36_ActiveConversation ==
    active_conversation # NONE
    => LET conv == npc_conversations[active_conversation] IN
       /\ conv.npc_type \in {"specialist", "enemy"}
       /\ ~conv.completed
       /\ Len(conv.questions) >= 1
          => conv.current_question_idx < Len(conv.questions)

\* a conversation of two questions is active at its second question
C36_Witness ==
    /\ active_conversation # NONE
    /\ Len(npc_conversations[active_conversation].questions) = 2
    /\ npc_conversations[active_conversation].current_question_idx = 1

(***************************************************************************)
(* C37: after any sequence of commands the player's position is inside the *)
(* grid of the current floor and on a cell that is not a wall (default     *)
(* 50x25 map, 3 floors): a move enters walkable cells only, and the cells  *)
(* the player arrives on after a descent and after an ascent are FLOOR     *)
(* cells of the floors they are used for.                                  *)
(***************************************************************************)
C37_PlayerOnFloorCell ==
    /\ player.x \in 0..(DEFAULT_MAP_WIDTH - 1)
    /\ player.y \in 0..(DEFAULT_MAP_HEIGHT - 1)
    /\ create_map(DEFAULT_MAP_WIDTH, DEFAULT_MAP_HEIGHT, current_floor,
                  player.x, player.y) = "."

\* the player has come up from the last floor to the arrival cell of floor 2,
\* having walked on the floors before
C37_Witness ==
    /\ current_floor = 2
    /\ message = "ascended"
    /\ player = [x |-> STAIRS_DOWN_DEFAULT_X, y |-> STAIRS_DOWN_DEFAULT_Y]
    /\ old_player_pos # NONE
    /\ \E i \in 1..Len(all_npcs) : all_npcs[i] = "VIRUS_HUNTER"

(***************************************************************************)
(* C38: on the default 50x25 map with fixed placement every NPC, every     *)
(* info terminal and every stairs generated for floors 1..3 is placed on a *)
(* FLOOR cell of the grid of that floor.                                   *)
(***************************************************************************)
OnFloorCells(entities) ==
    \A i \in 1..Len(entities) :
        create_map(DEFAULT_MAP_WIDTH, DEFAULT_MAP_HEIGHT, current_floor,
                   entities[i].x, entities[i].y) = "."

C38_FixedOnFloorCells ==
    ~random_npcs => OnFloorCells(npcs) /\ OnFloorCells(terminals) /\ OnFloorCells(stairs)

\* whether the player stands on stairs of the given direction
StandsOn(who, list, direction) ==
    \E i \in 1..Len(list) : list[i] = Stairs(who.x, who.y, direction)

\* C39: in fixed placement mode a successful descent from floor N leaves the
\* player on the UP stairs of floor N+1, and a use of the stairs that follows
\* it immediately ascends, whatever was completed on floor N+1, to floor N
\* with the player on the DOWN stairs of floor N, the entities of floor N
\* where they were first generated, and the persistent state what it was
\* before the descent.
C39_RoundTrip ==
    [][/\ (~random_npcs /\ current_floor' = current_floor + 1)
            => StandsOn(player', stairs', "up")
       /\ (~random_npcs /\ trip.before.valid /\ frames' = frames /\ use_stairs)
            => /\ ret'
               /\ current_floor' = trip.before.current_floor
               /\ current_floor' = current_floor - 1
               /\ StandsOn(player', stairs', "down")
               /\ LayoutOf(npcs', terminals', stairs') = trip.first[current_floor']
               /\ Persistent' = trip.before.persistent]_vars

\* the player is back on floor 2 after a round trip to floor 3, with NPCs of
\* floor 3 left unfinished
C39_Witness ==
    /\ ~random_npcs
    /\ trip.returned
    /\ current_floor = 2
    /\ message = "ascended"
    /\ StandsOn(player, stairs, "down")
    /\ \E i \in 1..Len(npc_data) :
          npc_data[i].floor = 3 /\ ~npc_conversations[npc_data[i].name].completed

\* C40: over any step the quest-completed set loses no member, holds only
\* specialists whose conversation is completed, and is contained in
\* npcs_completed; a specialist whose conversation a correct answer completes
\* joins it whether or not the quest is active.
C40_QuestCompleted ==
    [][/\ quest_completed_npcs \subseteq quest_completed_npcs'
       /\ \A n \in quest_completed_npcs' :
             /\ npc_conversations'[n].npc_type = "specialist"
             /\ npc_conversations'[n].completed
             /\ n \in npcs_completed'
       /\ \A n \in DOMAIN npc_conversations :
             (/\ npc_conversations[n].npc_type = "specialist"
              /\ ~npc_conversations[n].completed
              /\ npc_conversations'[n].completed
              /\ questions_correct' = questions_correct + 1)
             => n \in quest_completed_npcs']_vars

\* a specialist was recorded while the quest had not been activated, and an
\* enemy's conversation was completed as well
C40_Witness ==
    /\ ~quest_active
    /\ quest_completed_npcs # {}
    /\ \E n \in npcs_completed : npc_conversations[n].npc_type = "enemy"

=============================================================================
